---- MODULE Spec2Model ----
(***************************************************************************)
(* Schema inference engine of jusquery-ai: the type inferencer             *)
(* (SchemaService.getFieldType), the document walker (processField), the   *)
(* sampling unifier (analyzeCollectionBySampling), the strategy chain      *)
(* (analyzeCollection), the multi-collection run (analyzeDatabase) with    *)
(* its enrichment step (AIService.enrichFieldsWithOpenAI) and the          *)
(* controller that persists the result (SchemaController.analyzeDatabase). *)
(***************************************************************************)
EXTENDS Integers, Sequences, FiniteSets, TLC

(***************************************************************************)
(* Bounds of the model.                                                    *)
(***************************************************************************)
\* Longest sample drawn exhaustively from DocDomain.
MaxDocs == 3
\* Number of names of the collection list a whole-database run goes through.
NumCollections == 2
\* Largest number of distinct strings in the long single-field samples.
MaxDistinct == 11
\* Largest number of repeats of an already seen string in those samples.
MaxRepeat == 1
\* Deepest nesting (number of keys on the path) of a probed value.
MaxDepth == 3
\* Largest number of fields of a collection given to the chunker.
MaxFields == 6
\* Largest maxFieldsPerChunk of a chunker configuration.
MaxChunkSize == 4

(***************************************************************************)
(* Program constants.                                                      *)
(***************************************************************************)
\* value.buffer.length === 12 / byteLength === 12
ObjectIdBytes == 12
\* uniqueValues.size <= 10 / values.length <= 10
EnumMaxValues == 10

(***************************************************************************)
(* JavaScript values.  A value is a record tagged by k.  An object keeps   *)
(* its own enumerable properties as a sequence of <<key, value>> pairs in  *)
(* Object.entries order.  A property key is a non-empty sequence of        *)
(* dot-free segments, so that the key "a.b" is <<"a","b">>: joining a path *)
(* with '.' is then the concatenation of its keys, and two different key   *)
(* chains can join to the same string, as in the program.                  *)
(***************************************************************************)
Null == [k |-> "null"]
Undefined == [k |-> "undefined"]
Str(s) == [k |-> "string", s |-> s]
Num == [k |-> "number"]
Bool == [k |-> "boolean"]
DateV == [k |-> "date"]
Arr(elems) == [k |-> "array", elems |-> elems]
Obj(entries) == [k |-> "object", entries |-> entries]
\* A plain Uint8Array of n bytes, a Node Buffer of n bytes, an ArrayBuffer.
Bytes(n) == [k |-> "uint8array", len |-> n]
Buf(n) == [k |-> "buffer", len |-> n]
ArrayBuffer == [k |-> "arraybuffer"]
\* An instance of the driver's ObjectId class; its bytes are its buffer property.
NativeOid == [k |-> "objectid"]

Key(s) == <<s>>
Range(seq) == {seq[i] : i \in DOMAIN seq}

\* typeof value === 'object' && value !== null
IsObject(v) == v.k \in {"array", "object", "uint8array", "buffer", "arraybuffer", "date", "objectid"}
IsArray(v) == v.k = "array"
IsUint8Array(v) == v.k \in {"uint8array", "buffer"}

\* Object.entries(value); a typed array lists its bytes under their indexes.
Entries(v) ==
  CASE v.k = "object" -> v.entries
    [] v.k \in {"uint8array", "buffer"} -> [i \in 1..v.len |-> <<Key(ToString(i - 1)), Num>>]
    [] v.k = "array" -> [i \in 1..Len(v.elems) |-> <<Key(ToString(i - 1)), v.elems[i]>>]
    [] v.k = "objectid" -> << <<Key("buffer"), Bytes(ObjectIdBytes)>> >>
    [] OTHER -> <<>>

\* key in value, for an object value
HasProp(v, key) ==
  \/ \E i \in DOMAIN Entries(v) : Entries(v)[i][1] = key
  \/ v.k \in {"uint8array", "buffer"} /\ key = Key("buffer")

\* value[key]; undefined when the property is missing
Prop(v, key) ==
  IF \E i \in DOMAIN Entries(v) : Entries(v)[i][1] = key
    THEN Entries(v)[CHOOSE i \in DOMAIN Entries(v) : Entries(v)[i][1] = key][2]
    ELSE IF v.k \in {"uint8array", "buffer"} /\ key = Key("buffer") THEN ArrayBuffer
    ELSE Undefined

\* A faulty variant of Distinct: repeated elements are kept.
DistinctKeepAll(seq) == seq

\* Array.from(new Set(strings)): the distinct elements in order of first occurrence
RECURSIVE Distinct(_)
Distinct(seq) ==
  IF seq = <<>> THEN <<>>
  ELSE LET init == Distinct(SubSeq(seq, 1, Len(seq) - 1))
           last == seq[Len(seq)]
       IN IF last \in Range(init) THEN init ELSE Append(init, last)

\* set.add(x) on a Set kept in insertion order
SetAdd(seq, x) == IF x \in Range(seq) THEN seq ELSE Append(seq, x)

(***************************************************************************)
(* TypeInferencer: SchemaService.getFieldType.                             *)
(***************************************************************************)
\* The identifier test of the inferencer (lines 11-15).
InferencerIsObjectId(v) ==
  \/ v.k = "objectid"
  \/ /\ IsObject(v)
     /\ HasProp(v, Key("buffer"))
     /\ IsArray(Prop(v, Key("buffer")))
     /\ Len(Prop(v, Key("buffer")).elems) = ObjectIdBytes
  \/ /\ IsObject(v)
     /\ Prop(v, Key("_bsontype")) = Str("ObjectID")

\* value.length > 0 && value.every(item => typeof item === 'string')
AllStrings(elems) == Len(elems) > 0 /\ \A i \in DOMAIN elems : elems[i].k = "string"

\* uniqueValues.size < value.length && uniqueValues.size <= 10
ArrayQualifiesAsEnum(elems) ==
  /\ AllStrings(elems)
  /\ LET u == Distinct([i \in DOMAIN elems |-> elems[i].s])
     IN Len(u) < Len(elems) /\ Len(u) <= EnumMaxValues

\* The buffer property of an ObjectId that the property loops skip.
IsSkippedBuffer(key, val) ==
  key = Key("buffer") /\ IsArray(val) /\ Len(val.elems) = ObjectIdBytes

\* A faulty variant of SampledItem: the last element stands for the array.
SampledItemLast(elems) == elems[Len(elems)]

\* The element from which the items of an array are inferred: value[0] (line 32).
SampledItem(elems) == elems[1]

RECURSIVE getFieldType(_)
getFieldType(v) ==
  IF v.k = "null" THEN [type |-> "null"]
  ELSE IF InferencerIsObjectId(v) THEN [type |-> "ObjectId"]
  ELSE IF IsArray(v) THEN
    IF ArrayQualifiesAsEnum(v.elems)
      THEN [type |-> "enum", values |-> Distinct([i \in DOMAIN v.elems |-> v.elems[i].s])]
      ELSE [type |-> "array",
            items |-> IF Len(v.elems) > 0 THEN getFieldType(SampledItem(v.elems))
                      ELSE [type |-> "unknown"]]
  ELSE IF IsObject(v) THEN
    IF v.k = "date" THEN [type |-> "date"]
    ELSE IF v.k = "buffer" THEN [type |-> "binary"]
    ELSE IF /\ HasProp(v, Key("buffer"))
            /\ IsArray(Prop(v, Key("buffer")))
            /\ Len(Prop(v, Key("buffer")).elems) = ObjectIdBytes
      THEN [type |-> "ObjectId"]
    ELSE LET es == Entries(v)
             kept == {i \in DOMAIN es : ~IsSkippedBuffer(es[i][1], es[i][2])}
         IN [type |-> "object",
             properties |-> [key \in {es[i][1] : i \in kept} |->
                getFieldType(es[CHOOSE i \in kept : es[i][1] = key][2])]]
  ELSE CASE v.k = "string" -> [type |-> "string"]
         [] v.k = "number" -> [type |-> "number"]
         [] v.k = "boolean" -> [type |-> "boolean"]
         [] OTHER -> [type |-> "unknown"]

(***************************************************************************)
(* DocumentFieldWalker: processField and the per-document loop of          *)
(* analyzeCollectionBySampling.  The accumulator holds the three maps      *)
(* fields, fieldTypes and uniqueValues, keyed by the joined path.          *)
(***************************************************************************)
EmptyMap == [x \in {} |-> {}]
Put(m, key, val) == [x \in DOMAIN m \cup {key} |-> IF x = key THEN val ELSE m[x]]

\* const fields = {}; const fieldTypes = {}; const uniqueValues = {};
EmptyAcc == [fields |-> EmptyMap, fieldTypes |-> EmptyMap, uniqueValues |-> EmptyMap]

\* path.join('.')
RECURSIVE Join(_)
Join(path) == IF path = <<>> THEN <<>> ELSE Join(SubSeq(path, 1, Len(path) - 1)) \o path[Len(path)]

\* if (!fields[fieldPath]) { fields[fieldPath] = new Set(); uniqueValues[fieldPath] = new Set(); }
EnsurePath(acc, fp) ==
  IF fp \in DOMAIN acc.fields THEN acc
  ELSE [acc EXCEPT !.fields = Put(@, fp, {}), !.uniqueValues = Put(@, fp, <<>>)]

\* The identifier test of the walker (lines 280-286).
WalkerIsObjectIdLike(v) ==
  /\ IsObject(v)
  /\ HasProp(v, Key("buffer"))
  /\ IsUint8Array(Prop(v, Key("buffer")))
  /\ Prop(v, Key("buffer")).len = ObjectIdBytes

\* Lines 308-323 and 341-356: the observation of one value at one joined path.
Observe(acc, fp, val) ==
  LET a1 == EnsurePath(acc, fp)
      fieldType == getFieldType(val)
      a2 == [a1 EXCEPT !.fields = Put(@, fp, a1.fields[fp] \cup {fieldType.type})]
      a3 == IF val.k = "string"
              THEN [a2 EXCEPT !.uniqueValues = Put(@, fp, SetAdd(a2.uniqueValues[fp], val.s))]
              ELSE a2
  IN IF fp \in DOMAIN a3.fieldTypes THEN a3
     ELSE [a3 EXCEPT !.fieldTypes = Put(@, fp, fieldType)]

\* Lines 288-297: an identifier-shaped value marks its own path.
MarkObjectId(acc, fp) ==
  LET a1 == EnsurePath(acc, fp)
  IN [a1 EXCEPT !.fields = Put(@, fp, a1.fields[fp] \cup {"ObjectId"}),
                !.fieldTypes = Put(@, fp, [type |-> "ObjectId"])]

\* A faulty variant of ItemPath: one path per array index.
ItemPathPerIndex(path, i) == Append(path, Key(ToString(i - 1)))

\* The path under which an array element is walked (line 331: the array's own path).
ItemPath(path, i) == path

RECURSIVE processField(_, _, _), ProcessEntries(_, _, _, _), ProcessItems(_, _, _, _)
processField(acc, v, path) ==
  IF v.k \in {"null", "undefined"} THEN acc
  ELSE IF WalkerIsObjectIdLike(v) THEN MarkObjectId(acc, Join(path))
  ELSE IF IsObject(v) /\ ~IsArray(v) /\ v.k # "date" THEN ProcessEntries(acc, Entries(v), 1, path)
  ELSE IF IsArray(v) /\ Len(v.elems) > 0 THEN ProcessItems(acc, v.elems, 1, path)
  ELSE acc

\* for (const [key, val] of Object.entries(value)) { ... }
ProcessEntries(acc, es, i, path) ==
  IF i > Len(es) THEN acc
  ELSE IF IsSkippedBuffer(es[i][1], es[i][2]) THEN ProcessEntries(acc, es, i + 1, path)
  ELSE LET newPath == Append(path, es[i][1])
           a1 == Observe(acc, Join(newPath), es[i][2])
       IN ProcessEntries(processField(a1, es[i][2], newPath), es, i + 1, path)

\* for (const item of value) { await processField(item, path); }
ProcessItems(acc, elems, i, path) ==
  IF i > Len(elems) THEN acc
  ELSE ProcessItems(processField(acc, elems[i], ItemPath(path, i)), elems, i + 1, path)

\* Lines 338-360: the top-level entries of one document.
RECURSIVE ProcessTopLevel(_, _, _)
ProcessTopLevel(acc, es, i) ==
  IF i > Len(es) THEN acc
  ELSE IF es[i][1] = Key("_id") THEN ProcessTopLevel(acc, es, i + 1)
  ELSE LET a1 == Observe(acc, es[i][1], es[i][2])
       IN ProcessTopLevel(processField(a1, es[i][2], <<es[i][1]>>), es, i + 1)

(***************************************************************************)
(* SchemaUnifier: lines 363-383.                                           *)
(***************************************************************************)
\* doc[key]
DocGet(doc, key) == Prop(doc, key)

\* documents.every(doc => doc[key] !== undefined)
Required(documents, key) == \A d \in DOMAIN documents : DocGet(documents[d], key) # Undefined

\* A faulty variant of UnifierQualifiesAsEnum: the half-of-the-sample test is lost.
UnifierQualifiesAsEnumNoHalf(values, documents) == Len(values) <= EnumMaxValues

\* values.length <= 10 && values.length < documents.length * 0.5
UnifierQualifiesAsEnum(values, documents) ==
  Len(values) <= EnumMaxValues /\ 2 * Len(values) < Len(documents)

ConvertField(acc, documents, key) ==
  IF /\ "string" \in acc.fields[key]
     /\ key \in DOMAIN acc.uniqueValues
     /\ UnifierQualifiesAsEnum(acc.uniqueValues[key], documents)
    THEN [type |-> "enum", values |-> acc.uniqueValues[key],
          required |-> Required(documents, key)]
    ELSE [required |-> Required(documents, key)] @@ acc.fieldTypes[key]

ConvertFieldInfo(acc, documents) ==
  [key \in DOMAIN acc.fields |-> ConvertField(acc, documents, key)]

(***************************************************************************)
(* Inputs.  A document always carries its _id; the domain below holds the *)
(* shapes the walker and the unifier distinguish: missing, null, scalar,   *)
(* nested, array-of-objects, array-in-array, all-string arrays, the        *)
(* identifier shapes, and a key that contains a dot.  Keys that look like  *)
(* array indexes are left out (Object.entries would reorder them).         *)
(***************************************************************************)
Doc(entries) == Obj(<< <<Key("_id"), NativeOid>> >> \o entries)

\* An array of the twelve bytes of an identifier.
ByteArray == Arr([i \in 1..ObjectIdBytes |-> Num])

DocDomain ==
  { Doc(<<>>),
    Doc(<< <<Key("a"), Num>> >>),
    Doc(<< <<Key("b"), Num>> >>),
    Doc(<< <<Key("status"), Str("active")>> >>),
    Doc(<< <<Key("status"), Str("inactive")>> >>),
    Doc(<< <<Key("status"), Null>> >>),
    Doc(<< <<Key("a"), Str("x")>>, <<Key("status"), Str("active")>> >>),
    Doc(<< <<Key("a"), Obj(<< <<Key("b"), Num>> >>)>> >>),
    Doc(<< <<Key("a"), Arr(<< Obj(<< <<Key("b"), Str("x")>> >>),
                              Arr(<< Obj(<< <<Key("c"), NativeOid>> >>) >>) >>)>> >>),
    Doc(<< <<Key("tags"), Arr(<<Str("x"), Str("y"), Str("x"), Str("z")>>)>> >>),
    Doc(<< <<Key("a"), Obj(<< <<Key("buffer"), ByteArray>>, <<Key("b"), Num>> >>)>> >>),
    Doc(<< <<Key("a"), Obj(<< <<Key("buffer"), Bytes(ObjectIdBytes)>> >>)>> >>),
    Doc(<< <<Key("a"), Arr(<< NativeOid >>)>> >>),
    Doc(<< <<(<<"a", "b">>), Num>> >>) }

\* All samples of at most n documents.
RECURSIVE SamplesUpTo(_)
SamplesUpTo(n) ==
  IF n = 0 THEN {<<>>}
  ELSE LET shorter == SamplesUpTo(n - 1)
       IN shorter \cup {Append(s, d) : s \in {t \in shorter : Len(t) = n - 1}, d \in DocDomain}

Samples == SamplesUpTo(MaxDocs)

\* Long samples of one field: a first document, then d documents that hold
\* the strings s1..sd (one new string each) and r that repeat s1.
TagString(i) == Str("s" \o ToString(i))
TagDoc(v) == Doc(<< <<Key("tags"), v>> >>)
LongHeads == { <<>>, <<TagDoc(Arr(<<Str("x"), Str("x")>>))>>, <<TagDoc(Num)>> }
LongSamples ==
  { h \o [i \in 1..d |-> TagDoc(TagString(i))] \o [i \in 1..r |-> TagDoc(TagString(1))] :
      h \in LongHeads, d \in 1..MaxDistinct, r \in 0..MaxRepeat }

(***************************************************************************)
(* Probed values: identifiers in all their shapes, and values that only    *)
(* resemble them, held under a chain of 1..MaxDepth keys.                  *)
(***************************************************************************)
ProbeValues ==
  { NativeOid,
    Obj(<< <<Key("buffer"), ByteArray>> >>),
    Obj(<< <<Key("buffer"), ByteArray>>, <<Key("b"), Num>> >>),
    Obj(<< <<Key("buffer"), Bytes(ObjectIdBytes)>> >>),
    Obj(<< <<Key("buffer"), Buf(ObjectIdBytes)>>, <<Key("b"), Num>> >>),
    Obj(<< <<Key("_bsontype"), Str("ObjectID")>>, <<Key("id"), Str("x")>> >>),
    Obj(<< <<Key("buffer"), Bytes(2)>> >>),
    Obj(<< <<Key("buffer"), Arr(<<Num, Num>>)>> >>),
    Obj(<< <<Key("b"), Num>> >>),
    Arr(<< NativeOid >>),
    Bytes(2),
    Buf(2),
    DateV,
    Bool,
    Num }

\* Values on which the inferencer and the walker are compared with what is
\* said of them: null and undefined, the empty array, arrays of mixed
\* elements in both orders, all-string arrays with and without a repeat,
\* arrays that start with null, undefined, an array or an identifier, arrays
\* of objects of different shapes, and arrays nested inside arrays.
InferValues ==
  { Null,
    Undefined,
    Arr(<<>>),
    Arr(<<Num, Str("x")>>),
    Arr(<<Str("x"), Num>>),
    Arr(<<Str("x"), Str("y")>>),
    Arr(<<Str("x"), Str("x")>>),
    Arr(<<Null, Num>>),
    Arr(<<Undefined, Str("x")>>),
    Arr(<<Arr(<<>>), Num>>),
    Arr(<<Num, NativeOid>>),
    Arr(<<NativeOid, Num>>),
    Arr(<<Arr(<<Num>>), Arr(<<Str("x")>>)>>),
    Arr(<<Obj(<< <<Key("b"), Num>> >>), Obj(<< <<Key("c"), Str("x")>> >>)>>),
    Arr(<<Obj(<< <<Key("b"), Num>> >>),
          Arr(<<Obj(<< <<Key("c"), Bool>> >>), Arr(<<Obj(<< <<Key("d"), DateV>> >>)>>)>>)>>),
    Arr(<<Obj(<< <<Key("b"), Arr(<<Obj(<< <<Key("c"), Num>> >>),
                                   Obj(<< <<Key("d"), Num>> >>)>>)>> >>)>>) }

LevelKey(i) == Key("l" \o ToString(i))
ProbePath(n) == [i \in 1..n |-> "l" \o ToString(i)]

RECURSIVE NestAt(_, _, _)
NestAt(v, i, n) == IF i > n THEN v ELSE Obj(<< <<LevelKey(i), NestAt(v, i + 1, n)>> >>)

ProbeDoc(v, n) == Doc(NestAt(v, 1, n).entries)

(***************************************************************************)
(* Declared schemas.  Absent stands for a property that is not there.      *)
(* A Mongoose path is [instance, isRequired, caster, schema, schemaType];  *)
(* a $jsonSchema definition is [type, bsonType, items, properties,         *)
(* required, additionalProperties], with "" for a missing type name.       *)
(***************************************************************************)
Absent == [absent |-> TRUE]

MPath(instance, isRequired) ==
  [instance |-> instance, isRequired |-> isRequired, caster |-> Absent, schema |-> Absent,
   schemaType |-> Absent]

\* path.instance?.toLowerCase()
LowerCase(name) ==
  CASE name = "ObjectID" -> "objectid"
    [] name = "ObjectId" -> "objectid"
    [] name = "Number" -> "number"
    [] name = "String" -> "string"
    [] name = "Boolean" -> "boolean"
    [] name = "Date" -> "date"
    [] name = "Buffer" -> "buffer"
    [] name = "Array" -> "array"
    [] name = "Map" -> "map"
    [] name = "Object" -> "object"
    [] name = "Embedded" -> "embedded"
    [] name = "Mixed" -> "mixed"
    [] name = "Decimal128" -> "decimal128"
    [] OTHER -> name

\* getMongooseType
getMongooseType(path) ==
  LET instance == LowerCase(path.instance)
  IN CASE instance = "objectid" -> "ObjectId"
       [] instance = "number" -> "number"
       [] instance = "string" -> "string"
       [] instance = "boolean" -> "boolean"
       [] instance = "date" -> "date"
       [] instance = "buffer" -> "binary"
       [] instance = "array" -> "array"
       [] instance \in {"map", "object"} -> "object"
       [] OTHER -> "unknown"

\* path.isRequired || false
OrFalse(flag) == flag = "true"

\* The keys of a paths or properties object, and the entry of a key.
EntryKeys(es) == {es[i][1] : i \in DOMAIN es}
EntryOf(es, key) == es[CHOOSE i \in DOMAIN es : es[i][1] = key][2]

\* processMongoosePath.  A path that is embedded or has a schema reads
\* path.schema.paths; the model gives such a path a schema.
RECURSIVE processMongoosePath(_)
processMongoosePath(path) ==
  LET instance == LowerCase(path.instance)
  IN IF instance = "array"
       THEN [type |-> "array",
             items |-> IF path.caster # Absent THEN processMongoosePath(path.caster)
                       ELSE [type |-> "unknown"],
             required |-> OrFalse(path.isRequired)]
     ELSE IF instance = "embedded" \/ path.schema # Absent
       THEN [type |-> "object",
             properties |-> [key \in EntryKeys(path.schema.paths) \ {Key("_id")} |->
                               processMongoosePath(EntryOf(path.schema.paths, key))],
             required |-> OrFalse(path.isRequired)]
     ELSE IF instance = "map"
       THEN [type |-> "object",
             properties |-> EmptyMap,
             additionalProperties |-> processMongoosePath(path.schemaType),
             required |-> OrFalse(path.isRequired)]
     ELSE [type |-> getMongooseType(path), required |-> OrFalse(path.isRequired)]

\* convertMongooseSchema
convertMongooseSchema(mongooseSchema, collectionName) ==
  [collectionName |-> collectionName,
   fields |-> [key \in EntryKeys(mongooseSchema.paths) \ {Key("_id")} |->
                 processMongoosePath(EntryOf(mongooseSchema.paths, key))],
   totalDocuments |-> 0]

JDef(type, bsonType) ==
  [type |-> type, bsonType |-> bsonType, items |-> Absent, properties |-> <<>>,
   required |-> {}, additionalProperties |-> Absent]

\* convertBsonType
convertBsonType(bsonType) ==
  CASE bsonType = "objectId" -> "ObjectId"
    [] bsonType \in {"int", "long", "double", "decimal"} -> "number"
    [] bsonType = "string" -> "string"
    [] bsonType = "bool" -> "boolean"
    [] bsonType = "date" -> "date"
    [] bsonType = "binData" -> "binary"
    [] bsonType = "array" -> "array"
    [] bsonType = "object" -> "object"
    [] OTHER -> "unknown"

\* processJsonSchemaDefinition
RECURSIVE processJsonSchemaDefinition(_, _)
processJsonSchemaDefinition(definition, isRequired) ==
  IF definition.type = "array"
    THEN [type |-> "array",
          items |-> IF definition.items # Absent
                      THEN processJsonSchemaDefinition(definition.items, FALSE)
                      ELSE [type |-> "unknown"],
          required |-> isRequired]
  ELSE IF definition.type = "object"
    THEN LET base ==
               [type |-> "object",
                properties |-> [key \in EntryKeys(definition.properties) |->
                   processJsonSchemaDefinition(EntryOf(definition.properties, key),
                                               key \in definition.required)],
                required |-> isRequired]
         IN IF definition.additionalProperties # Absent
              THEN [additionalProperties |->
                      processJsonSchemaDefinition(definition.additionalProperties, FALSE)] @@ base
              ELSE base
  ELSE [type |-> convertBsonType(IF definition.bsonType # "" THEN definition.bsonType
                                 ELSE definition.type),
        required |-> isRequired]

\* convertJsonSchema
convertJsonSchema(jsonSchema, collectionName) ==
  [collectionName |-> collectionName,
   fields |-> [key \in EntryKeys(jsonSchema.properties) \ {Key("_id")} |->
                 processJsonSchemaDefinition(EntryOf(jsonSchema.properties, key),
                                             key \in jsonSchema.required)],
   totalDocuments |-> 0]

(***************************************************************************)
(* FieldEnricher: AIService.enrichFieldsWithOpenAI.  A text is kept by     *)
(* what the repair and the parser look at: whether it has bare keys,       *)
(* whether it has quoted keys, whether a comma trails before a closing     *)
(* bracket, whether a string holds a word followed by a colon, whether it  *)
(* is otherwise no JSON, and the value it denotes once it parses.          *)
(***************************************************************************)
\* Whether the JSON text of a value has keys.
HasKeys(value) ==
  \/ value.j = "object" /\ value.enrichedFields # Absent
  \/ value.j = "array" /\ Len(value.items) > 0

\* The JSON text of a value, as JSON.stringify writes it.
Text(value) ==
  [bareKeys |-> FALSE, quotedKeys |-> HasKeys(value), trailingCommas |-> FALSE,
   colonInString |-> FALSE, garbage |-> FALSE, value |-> value]

\* The near-JSON text of a value: no key is quoted, and a comma trails.
NearJson(value) ==
  [Text(value) EXCEPT !.bareKeys = HasKeys(value), !.quotedKeys = FALSE, !.trailingCommas = TRUE]

\* The three replace calls of lines 274-277.  /(\w+):/g quotes every word that
\* stands before a colon: a bare key becomes a quoted one, the word of a key
\* that was quoted already gets a second pair of quotes, and so does such a
\* word inside a string.
Repair(text) ==
  [text EXCEPT !.bareKeys = FALSE,
               !.quotedKeys = text.bareKeys,
               !.trailingCommas = FALSE,
               !.garbage = text.garbage \/ text.colonInString \/ text.quotedKeys]

\* JSON.parse: the value, or a SyntaxError
JsonParses(text) == ~text.bareKeys /\ ~text.trailingCommas /\ ~text.garbage

\* One record of the enrichment of a field.
EnrichRecord(key) ==
  [field |-> key, semanticMeaning |-> "meaning", importance |-> 5, tags |-> <<"tag">>]

JsonArray(items) == [j |-> "array", items |-> items]
JsonObject(enrichedFields) == [j |-> "object", enrichedFields |-> enrichedFields]
JsonUndefined == [j |-> "undefined"]

\* What the service did: a completion with its function_call arguments (a
\* text, or Absent), or a thrown value with error.response...content.
Completion(arguments) == [k |-> "completion", arguments |-> arguments]
Thrown(isError, content) == [k |-> "thrown", isError |-> isError, content |-> content]

Return(value) == [kind |-> "return", value |-> value]
Throw(error) == [kind |-> "throw", error |-> error]
NoOutcome == [kind |-> "none"]

\* A faulty variant of enrichFieldsWithOpenAI: every failure is swallowed
\* and answered with no enrichment.
enrichSwallowingFailures(resp) ==
  IF resp.k = "completion" /\ resp.arguments # Absent /\ JsonParses(resp.arguments)
    THEN Return(IF resp.arguments.value.j = "object" /\ resp.arguments.value.enrichedFields # Absent
                  THEN resp.arguments.value.enrichedFields
                  ELSE JsonUndefined)
  ELSE IF resp.k = "thrown" /\ resp.isError /\ resp.content # Absent /\ JsonParses(Repair(resp.content))
    THEN Return(resp.content.value)
  ELSE Return(JsonArray(<<>>))

\* A faulty variant of enrichFieldsWithOpenAI: a record with default values
\* is added to the records of the service.
enrichAddingDefault(resp) ==
  IF resp.k = "completion" /\ resp.arguments # Absent /\ JsonParses(resp.arguments)
       /\ resp.arguments.value.j = "object" /\ resp.arguments.value.enrichedFields # Absent
    THEN Return(JsonArray(Append(resp.arguments.value.enrichedFields.items,
           [field |-> Key("unknown"), semanticMeaning |-> "", importance |-> 1, tags |-> <<>>])))
  ELSE IF resp.k = "completion" /\ resp.arguments = Absent
    THEN Return(JsonArray(<<>>))
  ELSE Throw("APIError")

\* Lines 249-288, given what the service did.
enrichFieldsWithOpenAI(resp) ==
  IF resp.k = "completion" /\ resp.arguments = Absent
    THEN Return(JsonArray(<<>>))
  ELSE IF resp.k = "completion" /\ JsonParses(resp.arguments)
    THEN Return(IF resp.arguments.value.j = "object" /\ resp.arguments.value.enrichedFields # Absent
                  THEN resp.arguments.value.enrichedFields
                  ELSE JsonUndefined)
  ELSE IF resp.k = "completion"
    \* JSON.parse threw inside the try: an Error without a response
    THEN Throw("SyntaxError: arguments")
  ELSE IF resp.isError /\ resp.content # Absent
    THEN IF JsonParses(Repair(resp.content))
           THEN Return(resp.content.value)
           ELSE Throw("SyntaxError: repaired content")
  ELSE Throw(IF resp.isError THEN "APIError" ELSE "thrown value")

\* Some order of a finite set of keys.
RECURSIVE KeySeq(_)
KeySeq(S) == IF S = {} THEN <<>> ELSE LET x == CHOOSE y \in S : TRUE IN <<x>> \o KeySeq(S \ {x})

RecordsFor(keys) == [i \in DOMAIN KeySeq(keys) |-> EnrichRecord(KeySeq(keys)[i])]

\* What the service may do when asked to enrich a field map: answer for
\* every field, leave one field out, send no arguments, send arguments
\* without enrichedFields, send arguments that are no JSON, send arguments
\* that are near-JSON, fail with near-JSON content that the repair mends,
\* or that it does not (a word and a colon inside a string; keys that were
\* quoted already), fail without content, or throw something that is no
\* Error.
AllResponses(fields) ==
  LET keys == DOMAIN fields
      full == JsonArray(RecordsFor(keys))
      less == JsonArray(RecordsFor(keys \ {CHOOSE key \in keys : TRUE}))
  IN { Completion(Text(JsonObject(full))),
       Completion(Absent),
       Completion(Text(JsonObject(Absent))),
       Completion([Text(JsonObject(full)) EXCEPT !.garbage = TRUE]),
       Completion(NearJson(JsonObject(full))),
       Thrown(TRUE, NearJson(full)),
       Thrown(TRUE, [NearJson(full) EXCEPT !.colonInString = TRUE]),
       Thrown(TRUE, [Text(full) EXCEPT !.trailingCommas = TRUE]),
       Thrown(TRUE, Absent),
       Thrown(FALSE, Absent) }
     \cup (IF keys = {} THEN {} ELSE {Completion(Text(JsonObject(less)))})

\* The service answers for every field, sends no arguments, or fails
\* without content.
PlainResponses(fields) ==
  { Completion(Text(JsonObject(JsonArray(RecordsFor(DOMAIN fields))))),
    Completion(Absent),
    Thrown(TRUE, Absent) }

\* The responses of a service of the given kind.
Responses(service, fields) ==
  IF service = "any" THEN AllResponses(fields) ELSE PlainResponses(fields)

(***************************************************************************)
(* Collection handles: the name, what find().limit() and countDocuments()  *)
(* answer, the Mongoose model registered under the name (or Absent), and   *)
(* what options() answers ("rejects", or the options with their validator  *)
(* or Absent).                                                             *)
(***************************************************************************)
Handle(name, docs, total, model, options) ==
  [name |-> name, docs |-> docs, total |-> total, model |-> model, options |-> options]

OptionsRejects == [k |-> "rejects"]
Options(jsonSchema) == [k |-> "options", jsonSchema |-> jsonSchema]

\* const collections = [...] (line 398)
CollectionNames ==
  <<"goals", "ledger-files", "payment-transactions", "users", "transactions", "sips",
    "goal-investors", "payout-benificiaries">>

Min(a, b) == IF a < b THEN a ELSE b

\* A faulty variant of Collections: the same names, last first.
CollectionsReversed ==
  [i \in 1..Min(NumCollections, Len(CollectionNames)) |->
     CollectionNames[Min(NumCollections, Len(CollectionNames)) + 1 - i]]

\* The run is followed over the first NumCollections names of the list.
Collections == SubSeq(CollectionNames, 1, Min(NumCollections, Len(CollectionNames)))

UserModel ==
  [paths |->
     << <<Key("_id"), MPath("ObjectID", "undefined")>>,
        <<Key("name"), MPath("String", "true")>>,
        <<Key("tags"), [MPath("Array", "undefined") EXCEPT !.caster = MPath("String", "undefined")]>>,
        <<Key("address"),
          [MPath("Embedded", "false") EXCEPT !.schema =
             [paths |-> << <<Key("city"), MPath("String", "undefined")>>,
                           <<Key("_id"), MPath("ObjectID", "undefined")>> >>]]>>,
        <<Key("meta"), [MPath("Map", "undefined") EXCEPT !.schemaType = MPath("Number", "undefined")]>>,
        <<Key("legacy"), MPath("Mixed", "undefined")>> >>]

\* A model whose map path lost its value type: processMongoosePath throws on it.
BrokenModel == [paths |-> << <<Key("meta"), MPath("Map", "undefined")>> >>]

UserJsonSchema ==
  [JDef("", "object") EXCEPT
     !.required = {Key("name")},
     !.properties =
       << <<Key("_id"), JDef("", "objectId")>>,
          <<Key("name"), JDef("", "string")>>,
          <<Key("age"), JDef("", "int")>>,
          <<Key("tags"), [JDef("", "array") EXCEPT !.items = JDef("", "string")]>>,
          <<Key("list"), [JDef("array", "") EXCEPT !.items = JDef("string", "")]>>,
          <<Key("address"),
            [JDef("object", "") EXCEPT
               !.required = {Key("city")},
               !.properties = << <<Key("city"), JDef("string", "")>> >>,
               !.additionalProperties = JDef("string", "")]>> >>]

\* A validator with a property that has no definition: the conversion throws on it.
BrokenJsonSchema == [JDef("", "object") EXCEPT !.properties = << <<Key("name"), Absent>> >>]

\* processMongoosePath / processJsonSchemaDefinition throw a TypeError
RECURSIVE MongooseThrows(_), JsonSchemaThrows(_)
MongooseThrows(path) ==
  IF path = Absent THEN TRUE
  ELSE LET instance == LowerCase(path.instance)
       IN IF instance = "array" THEN path.caster # Absent /\ MongooseThrows(path.caster)
          ELSE IF instance = "embedded" \/ path.schema # Absent
            THEN \/ path.schema = Absent
                 \/ \E key \in EntryKeys(path.schema.paths) \ {Key("_id")} :
                      MongooseThrows(EntryOf(path.schema.paths, key))
          ELSE IF instance = "map" THEN MongooseThrows(path.schemaType)
          ELSE FALSE

JsonSchemaThrows(definition) ==
  IF definition = Absent THEN TRUE
  ELSE IF definition.type = "array"
    THEN definition.items # Absent /\ JsonSchemaThrows(definition.items)
  ELSE IF definition.type = "object"
    THEN \/ \E key \in EntryKeys(definition.properties) :
              JsonSchemaThrows(EntryOf(definition.properties, key))
         \/ definition.additionalProperties # Absent
              /\ JsonSchemaThrows(definition.additionalProperties)
  ELSE FALSE

ModelThrows(mongooseSchema) ==
  \E key \in EntryKeys(mongooseSchema.paths) \ {Key("_id")} :
    MongooseThrows(EntryOf(mongooseSchema.paths, key))

ValidatorThrows(jsonSchema) ==
  \E key \in EntryKeys(jsonSchema.properties) \ {Key("_id")} :
    JsonSchemaThrows(EntryOf(jsonSchema.properties, key))

\* The handles db.collection(name) may give in a whole-database run.  The
\* count of a collection is an input of its own: it may exceed the sample.
DbSample == <<Doc(<< <<Key("status"), Str("active")>> >>),
              Doc(<< <<Key("a"), Obj(<< <<Key("b"), Num>> >>)>> >>)>>
DbHandlesOf(name) ==
  { Handle(name, DbSample, 5, Absent, Options(Absent)),
    Handle(name, DbSample, 2, Absent, OptionsRejects),
    Handle(name, DbSample, 2, Absent, Options(BrokenJsonSchema)),
    Handle(name, DbSample, 2, BrokenModel, Options(UserJsonSchema)),
    Handle(name, DbSample, 2, UserModel, Options(UserJsonSchema)) }

\* The handles of two concurrent runs: both read the same sampled collections.
ConcHandlesOf(name) == { Handle(name, DbSample, 2, Absent, Options(Absent)) }

DbHandles == [name \in {CollectionNames[i] : i \in DOMAIN CollectionNames} |-> DbHandlesOf(name)]
ConcHandles == [name \in {CollectionNames[i] : i \in DOMAIN CollectionNames} |-> ConcHandlesOf(name)]

(***************************************************************************)
(* State.  Two requests (runs) may be in progress; every variable but the  *)
(* persisted artifact and its last writer is a function of the run.        *)
(***************************************************************************)
Runs == {"A", "B"}

VARIABLES
  pc,                 \* the position of each run
  request,            \* how the run was started, and whether req.body has a uri
  coll,               \* the collection handle analyzeCollection was given
  documents,          \* const documents (line 268)
  totalDocuments,     \* const totalDocuments (line 269)
  docIdx,             \* the position of the loop over documents (line 337)
  acc,                \* fields, fieldTypes, uniqueValues (lines 271-273)
  schema,             \* the CollectionSchema analyzeCollection returned
  collIdx,            \* the position of the loop over collections (line 402)
  collectionSchemas,  \* const collectionSchemas (line 400)
  client,             \* the MongoClient of the run: new, connected, closed
  pending,            \* how the try block of analyzeDatabase ended
  result,             \* how the promise of analyzeDatabase settled
  response,           \* what the controller answered
  artifact,           \* the persisted schema-analysis file
  lastWriter,         \* the run whose writeFile completed last
  calls,              \* the external calls of each run, in order
  served,             \* per enrichment call so far: the handle, the fields sent, the response
  qpc,                \* the position of the query request
  qrequest,           \* req.body of the query request, and the environment of the call
  generated,          \* const response (ai.service.ts, line 117)
  parsed,             \* { collectionName, operation, params } (line 119)
  qclient,            \* the MongoClient of executeMongoQuery: new, connected, closed
  qcalls,             \* the external calls of the query request, in order
  qpending,           \* how the try block of executeMongoQuery ended
  qresult,            \* how the promise of generateMongoQuery (or executeMongoQuery) settled
  qresponse,          \* what executeQuery answered
  chunker,            \* the SchemaChunker configuration and the collection it is given
  chunkI,             \* let i of the loop over the fields (chunk_schema.ts, line 59)
  chunks              \* the collection_fields chunks pushed so far

sampleVars == <<documents, totalDocuments, docIdx, acc>>
runVars == <<collIdx, collectionSchemas, client, pending, result>>
ctlVars == <<request, response, artifact, lastWriter>>
queryVars == <<qpc, qrequest, generated, parsed, qclient, qcalls, qpending, qresult, qresponse>>
chunkVars == <<chunker, chunkI, chunks>>
vars == <<pc, request, coll, documents, totalDocuments, docIdx, acc, schema, collIdx,
          collectionSchemas, client, pending, result, response, artifact, lastWriter, calls,
          served, queryVars, chunkVars>>

\* const sampleSize = 100
SampleSize == 100

NoSchema == [collectionName |-> "", fields |-> EmptyMap, totalDocuments |-> 0 - 1]
NoCollection == Handle("", <<>>, 0, Absent, OptionsRejects)
NoResponse == [status |-> 0]

Error(name, stage, collection) == [name |-> name, stage |-> stage, collection |-> collection]

Called(r, op, name) == calls' = [calls EXCEPT ![r] = Append(@, <<op, name>>)]

\* Where a rejection inside analyzeCollection lands: in the finally block of
\* analyzeDatabase, or at the caller of analyzeCollectionBySampling.
Rejected(r, error) ==
  /\ pending' = [pending EXCEPT ![r] = Throw(error)]
  /\ pc' = [pc EXCEPT ![r] = IF request[r].entry = "controller" THEN "closing" ELSE "rejected"]

(***************************************************************************)
(* analyzeCollectionBySampling (lines 263-390).  io is the set of outcomes *)
(* an external call may have.                                              *)
(***************************************************************************)
\* await collection.find().limit(sampleSize).toArray()
Find(r, io) ==
  /\ pc[r] = "find"
  /\ Called(r, "find", coll[r].name)
  /\ \E ok \in io :
       IF ok
         THEN /\ documents' = [documents EXCEPT ![r] =
                    SubSeq(coll[r].docs, 1, Min(SampleSize, Len(coll[r].docs)))]
              /\ pc' = [pc EXCEPT ![r] = "count"]
              /\ UNCHANGED pending
         ELSE /\ Rejected(r, Error("MongoError", "find", coll[r].name))
              /\ UNCHANGED documents
  /\ UNCHANGED <<coll, totalDocuments, docIdx, acc, schema, collIdx, collectionSchemas, client,
                 result, ctlVars, served>>
  /\ UNCHANGED <<queryVars, chunkVars>>

\* await collection.countDocuments(), then the three fresh maps.  The handle
\* answers with the count of its collection, which is an input of its own.
CountDocuments(r, io) ==
  /\ pc[r] = "count"
  /\ Called(r, "countDocuments", coll[r].name)
  /\ \E ok \in io :
       IF ok
         THEN /\ totalDocuments' = [totalDocuments EXCEPT ![r] = coll[r].total]
              /\ acc' = [acc EXCEPT ![r] = EmptyAcc]
              /\ docIdx' = [docIdx EXCEPT ![r] = 1]
              /\ pc' = [pc EXCEPT ![r] = "walk"]
              /\ UNCHANGED pending
         ELSE /\ Rejected(r, Error("MongoError", "countDocuments", coll[r].name))
              /\ UNCHANGED <<totalDocuments, acc, docIdx>>
  /\ UNCHANGED <<coll, documents, schema, collIdx, collectionSchemas, client, result, ctlVars,
                 served>>
  /\ UNCHANGED <<queryVars, chunkVars>>

\* One iteration of for (const doc of documents)
ProcessDocument(r) ==
  /\ pc[r] = "walk"
  /\ docIdx[r] <= Len(documents[r])
  /\ acc' = [acc EXCEPT ![r] =
               ProcessTopLevel(acc[r], Entries(documents[r][docIdx[r]]), 1)]
  /\ docIdx' = [docIdx EXCEPT ![r] = @ + 1]
  /\ UNCHANGED <<pc, coll, documents, totalDocuments, schema, runVars, ctlVars, calls, served>>
  /\ UNCHANGED <<queryVars, chunkVars>>

\* Lines 363-389: convert the field information and return
Unify(r) ==
  /\ pc[r] = "walk"
  /\ docIdx[r] > Len(documents[r])
  /\ schema' = [schema EXCEPT ![r] =
        [collectionName |-> coll[r].name,
         fields |-> ConvertFieldInfo(acc[r], documents[r]),
         totalDocuments |-> totalDocuments[r]]]
  /\ pc' = [pc EXCEPT ![r] = "analyzed"]
  /\ UNCHANGED <<coll, sampleVars, runVars, ctlVars, calls, served>>
  /\ UNCHANGED <<queryVars, chunkVars>>

(***************************************************************************)
(* analyzeCollection (lines 71-99)                                         *)
(***************************************************************************)
\* A faulty variant of TryMongoose: the registered model is not looked at.
TryMongooseSkipped(r) ==
  /\ pc[r] = "mongoose"
  /\ pc' = [pc EXCEPT ![r] = "options"]
  /\ UNCHANGED <<schema, coll, sampleVars, runVars, ctlVars, calls, served>>
  /\ UNCHANGED <<queryVars, chunkVars>>

\* Lines 76-85: mongoose.models[collectionName]; a throw is swallowed
TryMongoose(r) ==
  /\ pc[r] = "mongoose"
  /\ IF coll[r].model # Absent /\ ~ModelThrows(coll[r].model)
       THEN /\ schema' = [schema EXCEPT ![r] = convertMongooseSchema(coll[r].model, coll[r].name)]
            /\ pc' = [pc EXCEPT ![r] = "analyzed"]
       ELSE /\ pc' = [pc EXCEPT ![r] = "options"]
            /\ UNCHANGED schema
  /\ UNCHANGED <<coll, sampleVars, runVars, ctlVars, calls, served>>
  /\ UNCHANGED <<queryVars, chunkVars>>

\* A faulty variant of TryValidator: a rejection of options() is not caught.
TryValidatorSurfacing(r) ==
  /\ pc[r] = "options"
  /\ Called(r, "options", coll[r].name)
  /\ IF coll[r].options.k = "rejects"
       THEN /\ Rejected(r, Error("MongoError", "options", coll[r].name))
            /\ UNCHANGED schema
       ELSE /\ UNCHANGED pending
            /\ IF coll[r].options.jsonSchema # Absent /\ ~ValidatorThrows(coll[r].options.jsonSchema)
                 THEN /\ schema' = [schema EXCEPT ![r] =
                            convertJsonSchema(coll[r].options.jsonSchema, coll[r].name)]
                      /\ pc' = [pc EXCEPT ![r] = "analyzed"]
                 ELSE /\ pc' = [pc EXCEPT ![r] = "find"]
                      /\ UNCHANGED schema
  /\ UNCHANGED <<coll, sampleVars, collIdx, collectionSchemas, client, result, ctlVars, served>>
  /\ UNCHANGED <<queryVars, chunkVars>>

\* Lines 88-95: await collection.options(); a rejection or a throw is swallowed
TryValidator(r) ==
  /\ pc[r] = "options"
  /\ Called(r, "options", coll[r].name)
  /\ IF /\ coll[r].options.k = "options"
        /\ coll[r].options.jsonSchema # Absent
        /\ ~ValidatorThrows(coll[r].options.jsonSchema)
       THEN /\ schema' = [schema EXCEPT ![r] =
                  convertJsonSchema(coll[r].options.jsonSchema, coll[r].name)]
            /\ pc' = [pc EXCEPT ![r] = "analyzed"]
       ELSE /\ pc' = [pc EXCEPT ![r] = "find"]
            /\ UNCHANGED schema
  /\ UNCHANGED <<coll, sampleVars, runVars, ctlVars, served>>
  /\ UNCHANGED <<queryVars, chunkVars>>

(***************************************************************************)
(* analyzeDatabase (lines 392-422)                                         *)
(***************************************************************************)
DatabaseSchema(collections) == [databaseName |-> "test", collections |-> collections]

\* await client.connect(); client.db(); the empty collectionSchemas
Connect(r, io) ==
  /\ pc[r] = "connect"
  /\ Called(r, "connect", "")
  /\ \E ok \in io :
       IF ok
         THEN /\ client' = [client EXCEPT ![r] = "connected"]
              /\ collIdx' = [collIdx EXCEPT ![r] = 1]
              /\ collectionSchemas' = [collectionSchemas EXCEPT ![r] = <<>>]
              /\ pc' = [pc EXCEPT ![r] = "loop"]
              /\ UNCHANGED pending
         ELSE /\ pending' = [pending EXCEPT ![r] = Throw(Error("MongoError", "connect", ""))]
              /\ pc' = [pc EXCEPT ![r] = "closing"]
              /\ UNCHANGED <<client, collIdx, collectionSchemas>>
  /\ UNCHANGED <<coll, sampleVars, schema, result, ctlVars, served>>
  /\ UNCHANGED <<queryVars, chunkVars>>

\* for (const collection of collections): db.collection(collection) and the
\* call of analyzeCollection
NextCollection(r, handles) ==
  /\ pc[r] = "loop"
  /\ collIdx[r] <= Len(Collections)
  /\ \E h \in handles[Collections[collIdx[r]]] : coll' = [coll EXCEPT ![r] = h]
  /\ pc' = [pc EXCEPT ![r] = "mongoose"]
  /\ UNCHANGED <<sampleVars, schema, runVars, ctlVars, calls, served>>
  /\ UNCHANGED <<queryVars, chunkVars>>

\* await aiService.enrichFieldsWithOpenAI(schema.fields, collection);
\* schema.fields = enrichedFields; collectionSchemas.push(schema).
\* schema[r] keeps what analyzeCollection returned.
Enrich(r, service) ==
  /\ pc[r] = "analyzed"
  /\ request[r].entry = "controller"
  /\ Called(r, "enrich", coll[r].name)
  /\ \E resp \in Responses(service, schema[r].fields) :
       LET out == enrichFieldsWithOpenAI(resp)
       IN /\ served' = [served EXCEPT ![r] = Append(@, [handle |-> coll[r], fields |-> schema[r].fields, resp |-> resp])]
          /\ IF out.kind = "return"
               THEN /\ collectionSchemas' = [collectionSchemas EXCEPT ![r] =
                          Append(@, [schema[r] EXCEPT !.fields = out.value])]
                    /\ collIdx' = [collIdx EXCEPT ![r] = @ + 1]
                    /\ pc' = [pc EXCEPT ![r] = "loop"]
                    /\ UNCHANGED pending
               ELSE /\ pending' = [pending EXCEPT ![r] =
                          Throw(Error(out.error, "enrich", coll[r].name))]
                    /\ pc' = [pc EXCEPT ![r] = "closing"]
                    /\ UNCHANGED <<collectionSchemas, collIdx>>
  /\ UNCHANGED <<coll, sampleVars, schema, client, result, ctlVars>>
  /\ UNCHANGED <<queryVars, chunkVars>>

\* return { databaseName: db.databaseName, collections: collectionSchemas }
ReturnSchema(r) ==
  /\ pc[r] = "loop"
  /\ collIdx[r] > Len(Collections)
  /\ pending' = [pending EXCEPT ![r] = Return(DatabaseSchema(collectionSchemas[r]))]
  /\ pc' = [pc EXCEPT ![r] = "closing"]
  /\ UNCHANGED <<coll, sampleVars, schema, collIdx, collectionSchemas, client, result, ctlVars,
                 calls, served>>
  /\ UNCHANGED <<queryVars, chunkVars>>

\* A faulty variant of Close: the client is closed on the successful path only.
CloseOnSuccessOnly(r, io) ==
  /\ pc[r] = "closing"
  /\ IF pending[r].kind = "return"
       THEN /\ Called(r, "close", "")
            /\ client' = [client EXCEPT ![r] = "closed"]
       ELSE UNCHANGED <<calls, client>>
  /\ result' = [result EXCEPT ![r] = pending[r]]
  /\ pc' = [pc EXCEPT ![r] = "settled"]
  /\ UNCHANGED <<coll, sampleVars, schema, collIdx, collectionSchemas, pending, ctlVars, served>>
  /\ UNCHANGED <<queryVars, chunkVars>>

\* finally { await client.close() }: the promise settles as the try block
\* ended, unless close rejects, and then with the rejection of close
Close(r, io) ==
  /\ pc[r] = "closing"
  /\ Called(r, "close", "")
  /\ \E ok \in io :
       IF ok
         THEN /\ client' = [client EXCEPT ![r] = "closed"]
              /\ result' = [result EXCEPT ![r] = pending[r]]
         ELSE /\ result' = [result EXCEPT ![r] = Throw(Error("MongoError", "close", ""))]
              /\ UNCHANGED client
  /\ pc' = [pc EXCEPT ![r] = "settled"]
  /\ UNCHANGED <<coll, sampleVars, schema, collIdx, collectionSchemas, pending, ctlVars, served>>
  /\ UNCHANGED <<queryVars, chunkVars>>

(***************************************************************************)
(* SchemaController.analyzeDatabase (schema.controller.ts, lines 21-57)    *)
(* and the file it writes.  A file is the sequence of its cells; the cell  *)
(* at position i of a text is the pair of the text and i.                  *)
(***************************************************************************)
RECURSIVE Sum(_)
Sum(s) == IF s = <<>> THEN 0 ELSE Head(s) + Sum(Tail(s))

\* JSON.stringify(schema, null, 2): a property whose value is undefined is left out
Stringify(databaseSchema) ==
  [databaseName |-> databaseSchema.databaseName,
   collections |->
     [i \in DOMAIN databaseSchema.collections |->
        LET c == databaseSchema.collections[i]
        IN IF c.fields = JsonUndefined
             THEN [collectionName |-> c.collectionName, totalDocuments |-> c.totalDocuments]
             ELSE c]]

\* The length of a text, counted in the entries it lists.
TextLength(text) ==
  1 + Sum([i \in DOMAIN text.collections |->
             LET c == text.collections[i]
             IN IF "fields" \in DOMAIN c THEN 1 + Len(c.fields.items) ELSE 1])

FileOf(text) == [i \in 1..TextLength(text) |-> <<text, i>>]

Max(a, b) == IF a < b THEN b ELSE a

\* Writing a whole text at position 0 of an open file.
Overwrite(file, text) ==
  [i \in 1..Max(Len(file), TextLength(text)) |->
     IF i <= TextLength(text) THEN <<text, i>> ELSE file[i]]

PreviousArtifact == FileOf(DatabaseSchema(<<>>))

\* const config = req.body; if (!config.uri) return res.status(400)...;
\* schemaService.analyzeDatabase(config) constructs the client before its
\* try block (schema.service.ts, line 393): a connection string the driver
\* cannot parse makes the constructor throw, and the call rejects at once
ReceiveRequest(r) ==
  /\ pc[r] = "request"
  /\ IF ~request[r].hasUri
       THEN /\ response' = [response EXCEPT ![r] =
                  [status |-> 400, error |-> "MongoDB URI is required"]]
            /\ pc' = [pc EXCEPT ![r] = "done"]
            /\ UNCHANGED <<client, result>>
       ELSE IF request[r].validUri
       THEN /\ client' = [client EXCEPT ![r] = "new"]
            /\ pc' = [pc EXCEPT ![r] = "connect"]
            /\ UNCHANGED <<response, result>>
       ELSE /\ result' = [result EXCEPT ![r] = Throw(Error("MongoParseError", "construct", ""))]
            /\ pc' = [pc EXCEPT ![r] = "settled"]
            /\ UNCHANGED <<client, response>>
  /\ UNCHANGED <<coll, sampleVars, schema, collIdx, collectionSchemas, pending, request,
                 artifact, lastWriter, calls, served>>
  /\ UNCHANGED <<queryVars, chunkVars>>

ServerError(error) ==
  [status |-> 500, error |-> "Failed to analyze database schema", details |-> error]

\* A faulty variant of RespondError: the failed run also empties the file.
RespondErrorClearing(r) ==
  /\ pc[r] = "settled"
  /\ result[r].kind = "throw"
  /\ response' = [response EXCEPT ![r] = ServerError(result[r].error)]
  /\ artifact' = <<>>
  /\ pc' = [pc EXCEPT ![r] = "done"]
  /\ UNCHANGED <<coll, sampleVars, schema, runVars, request, lastWriter, calls, served>>
  /\ UNCHANGED <<queryVars, chunkVars>>

\* The await of line 31 rejected: the catch block answers 500
RespondError(r) ==
  /\ pc[r] = "settled"
  /\ result[r].kind = "throw"
  /\ response' = [response EXCEPT ![r] = ServerError(result[r].error)]
  /\ pc' = [pc EXCEPT ![r] = "done"]
  /\ UNCHANGED <<coll, sampleVars, schema, runVars, request, artifact, lastWriter, calls, served>>
  /\ UNCHANGED <<queryVars, chunkVars>>

\* await fs.mkdir(dirPath, { recursive: true })
Mkdir(r, io) ==
  /\ pc[r] = "settled"
  /\ result[r].kind = "return"
  /\ Called(r, "mkdir", "")
  /\ \E ok \in io :
       IF ok
         THEN /\ pc' = [pc EXCEPT ![r] = "open"]
              /\ UNCHANGED response
         ELSE /\ response' = [response EXCEPT ![r] = ServerError(Error("EACCES", "mkdir", ""))]
              /\ pc' = [pc EXCEPT ![r] = "done"]
  /\ UNCHANGED <<coll, sampleVars, schema, runVars, request, artifact, lastWriter, served>>
  /\ UNCHANGED <<queryVars, chunkVars>>

\* await fs.writeFile(...), first half: the file is opened with flag 'w',
\* which truncates it
OpenFile(r, io) ==
  /\ pc[r] = "open"
  /\ Called(r, "open", "")
  /\ \E ok \in io :
       IF ok
         THEN /\ artifact' = <<>>
              /\ pc' = [pc EXCEPT ![r] = "write"]
              /\ UNCHANGED response
         ELSE /\ response' = [response EXCEPT ![r] = ServerError(Error("EACCES", "open", ""))]
              /\ pc' = [pc EXCEPT ![r] = "done"]
              /\ UNCHANGED artifact
  /\ UNCHANGED <<coll, sampleVars, schema, runVars, request, lastWriter, served>>
  /\ UNCHANGED <<queryVars, chunkVars>>

\* await fs.writeFile(...), second half: the text is written from position 0
\* of the open file, and the promise resolves
WriteFile(r, io) ==
  /\ pc[r] = "write"
  /\ Called(r, "write", "")
  /\ \E ok \in io :
       IF ok
         THEN /\ artifact' = Overwrite(artifact, Stringify(result[r].value))
              /\ lastWriter' = r
              /\ pc' = [pc EXCEPT ![r] = "respond"]
              /\ UNCHANGED response
         ELSE /\ response' = [response EXCEPT ![r] = ServerError(Error("ENOSPC", "write", ""))]
              /\ pc' = [pc EXCEPT ![r] = "done"]
              /\ UNCHANGED <<artifact, lastWriter>>
  /\ UNCHANGED <<coll, sampleVars, schema, runVars, request, served>>
  /\ UNCHANGED <<queryVars, chunkVars>>

\* res.json({ message, analysisPath, schema })
Respond(r) ==
  /\ pc[r] = "respond"
  /\ response' = [response EXCEPT ![r] = [status |-> 200, schema |-> result[r].value]]
  /\ pc' = [pc EXCEPT ![r] = "done"]
  /\ UNCHANGED <<coll, sampleVars, schema, runVars, request, artifact, lastWriter, calls, served>>
  /\ UNCHANGED <<queryVars, chunkVars>>

(***************************************************************************)
(* The query path: AIController.executeQuery (rag.controller.ts, lines     *)
(* 123-163), AIService.generateMongoQuery (ai.service.ts, lines 97-137),   *)
(* parseMongoQuery (chunk_schema.ts, lines 159-183) and executeMongoQuery  *)
(* (unnamed/part_003, lines 3-25).  A generated query text is kept by what *)
(* the parser looks at: whether it has the form db.<name>.<method>, the    *)
(* method, and its argument list: none on one line, empty, text that       *)
(* eval / JSON.parse accepts, or text they reject; and by whether the      *)
(* pipeline it denotes holds a $out or $merge stage.                       *)
(***************************************************************************)
Methods ==
  {"aggregate", "find", "findOne", "findOneAndDelete", "updateOne", "deleteMany", "insertOne"}

QueryText(method, args, writes) ==
  [form |-> "shell", method |-> method, args |-> args, writes |-> writes]
\* A text without db.<name>.<method>, and the empty string.
NotAQuery == [form |-> "other"]
EmptyQuery == [form |-> "empty"]

\* The third group of the pattern of line 160, (aggregate|find|findOne|update|delete):
\* the first alternative that the method starts with, "" when there is none.
MatchedOperation(method) ==
  CASE method = "aggregate" -> "aggregate"
    [] method \in {"find", "findOne", "findOneAndDelete"} -> "find"
    [] method = "updateOne" -> "update"
    [] method = "deleteMany" -> "delete"
    [] OTHER -> ""

ParamsUndefined == [p |-> "undefined"]
Filter(empty) == [p |-> "filter", empty |-> empty]
Pipeline(writes) == [p |-> "pipeline", writes |-> writes]

ParsedQuery(collectionName, operation, params) ==
  [collectionName |-> collectionName, operation |-> operation, params |-> params]

\* parseMongoQuery of a text found in the collection "users" (lines 159-183);
\* Absent is a response without mongoQuery, whose .match is a TypeError.
parseMongoQuery(queryStr) ==
  IF queryStr = Absent THEN Throw("TypeError")
  ELSE IF queryStr.form # "shell" THEN Throw("Invalid query format")
  ELSE IF MatchedOperation(queryStr.method) = "" THEN Throw("Invalid query format")
  ELSE LET operation == MatchedOperation(queryStr.method)
       IN IF operation = "aggregate" THEN
            IF queryStr.args = "none" THEN Throw("Invalid aggregate query format")
            ELSE IF queryStr.args = "bad" THEN Throw("SyntaxError")
            ELSE Return(ParsedQuery("users", operation,
                                    IF queryStr.args = "empty" THEN ParamsUndefined
                                    ELSE Pipeline(queryStr.writes)))
          ELSE IF operation = "find" THEN
            IF queryStr.args = "none" \/ queryStr.method \notin {"find", "findOne"}
              THEN Throw("Invalid find query format")
            ELSE IF queryStr.args = "bad" THEN Throw("SyntaxError")
            ELSE Return(ParsedQuery("users", operation, Filter(queryStr.args = "empty")))
          ELSE Return(ParsedQuery("users", operation, ParamsUndefined))

\* The texts the generation may answer with.
QueryTexts ==
  { NotAQuery, EmptyQuery,
    QueryText("aggregate", "none", FALSE),
    QueryText("aggregate", "bad", FALSE),
    QueryText("aggregate", "good", FALSE),
    QueryText("aggregate", "good", TRUE),
    QueryText("find", "empty", FALSE),
    QueryText("find", "good", FALSE),
    QueryText("find", "bad", FALSE),
    QueryText("findOne", "good", FALSE),
    QueryText("findOneAndDelete", "good", FALSE),
    QueryText("updateOne", "good", FALSE),
    QueryText("deleteMany", "good", FALSE),
    QueryText("insertOne", "good", FALSE) }

\* What generateIntentBasedQuery may do (unnamed/part_000, lines 76-141):
\* reject, or return the parsed content, with or without a mongoQuery.
Generations ==
  {Throw("APIError")} \cup {Return([mongoQuery |-> t, explanation |-> "explanation"]) :
                              t \in QueryTexts \cup {Absent}}

\* The calls executeMongoQuery may be given directly.
DirectCalls ==
  { ParsedQuery("users", "aggregate", Pipeline(FALSE)),
    ParsedQuery("users", "aggregate", Pipeline(TRUE)),
    ParsedQuery("users", "find", Filter(FALSE)),
    ParsedQuery("users", "findOne", Filter(FALSE)),
    ParsedQuery("users", "update", ParamsUndefined),
    ParsedQuery("users", "delete", ParamsUndefined),
    ParsedQuery("users", "insert", ParamsUndefined) }

NoQuery == [mongoQuery |-> EmptyQuery, explanation |-> ""]
NoParsed == ParsedQuery("", "", ParamsUndefined)

\* The QueryResult of the catch block of generateMongoQuery (lines 130-135).
FailedPrefix == "Query execution failed: "
Failure(message) ==
  [mongoQuery |-> EmptyQuery,
   explanation |-> [prefix |-> FailedPrefix, message |-> message],
   results |-> <<>>,
   needsClarification |-> FALSE]

\* The QueryResult of lines 122-127.
Success(generation, results) ==
  [mongoQuery |-> generation.mongoQuery,
   explanation |-> [prefix |-> "", message |-> generation.explanation],
   results |-> results,
   needsClarification |-> FALSE]

QCalled(op, name) == qcalls' = Append(qcalls, <<op, name>>)

\* A throw inside the try block of generateMongoQuery: the catch block
\* resolves the promise with the failure result.
Caught(message) ==
  /\ qresult' = Return(Failure(message))
  /\ qpc' = "respond"

\* const { query, proceed } = req.body; if (!query) return res.status(400)...
ReceiveQuery ==
  /\ qpc = "request"
  /\ IF qrequest.hasQuery
       THEN /\ qpc' = "readContext"
            /\ UNCHANGED qresponse
       ELSE /\ qresponse' = [status |-> 400, error |-> "Query is required"]
            /\ qpc' = "done"
  /\ UNCHANGED <<qrequest, generated, parsed, qclient, qcalls, qpending, qresult>>
  /\ UNCHANGED <<pc, request, coll, sampleVars, schema, runVars, response, artifact, lastWriter,
                 calls, served, chunkVars>>

\* JSON.parse(await fs.readFile(this.contextPath, 'utf-8'))
ReadContext(io) ==
  /\ qpc = "readContext"
  /\ QCalled("readContext", "")
  /\ \E outcome \in io :
       IF outcome = "ok"
         THEN /\ qpc' = "loadAnalysis"
              /\ UNCHANGED qresult
         ELSE Caught(outcome)
  /\ UNCHANGED <<qrequest, generated, parsed, qclient, qpending, qresponse>>
  /\ UNCHANGED <<pc, request, coll, sampleVars, schema, runVars, response, artifact, lastWriter,
                 calls, served, chunkVars>>

\* await this.loadSchemaAnalysis(): the saved analysis, or null (lines 36-43)
LoadSchemaAnalysis(io) ==
  /\ qpc = "loadAnalysis"
  /\ QCalled("readAnalysis", "")
  /\ \E ok \in io : qpc' = IF ok THEN "generate" ELSE "readSchema"
  /\ UNCHANGED <<qrequest, generated, parsed, qclient, qpending, qresult, qresponse>>
  /\ UNCHANGED <<pc, request, coll, sampleVars, schema, runVars, response, artifact, lastWriter,
                 calls, served, chunkVars>>

\* savedAnalysis || JSON.parse(await fs.readFile(this.schemaPath, 'utf-8'))
ReadSchema(io) ==
  /\ qpc = "readSchema"
  /\ QCalled("readSchema", "")
  /\ \E outcome \in io :
       IF outcome = "ok"
         THEN /\ qpc' = "generate"
              /\ UNCHANGED qresult
         ELSE Caught(outcome)
  /\ UNCHANGED <<qrequest, generated, parsed, qclient, qpending, qresponse>>
  /\ UNCHANGED <<pc, request, coll, sampleVars, schema, runVars, response, artifact, lastWriter,
                 calls, served, chunkVars>>

\* A faulty variant of GenerateAndParse: a failure of the parser is not caught.
GenerateAndParseEscaping ==
  /\ qpc = "generate"
  /\ QCalled("generate", "")
  /\ \E g \in Generations :
       IF g.kind = "throw"
         THEN /\ Caught(g.error)
              /\ UNCHANGED <<generated, parsed>>
         ELSE /\ generated' = g.value
              /\ IF parseMongoQuery(g.value.mongoQuery).kind = "throw"
                   THEN /\ qresult' = parseMongoQuery(g.value.mongoQuery)
                        /\ qpc' = "respond"
                        /\ UNCHANGED parsed
                   ELSE /\ parsed' = parseMongoQuery(g.value.mongoQuery).value
                        /\ qpc' = "construct"
                        /\ UNCHANGED qresult
  /\ UNCHANGED <<qrequest, qclient, qpending, qresponse>>
  /\ UNCHANGED <<pc, request, coll, sampleVars, schema, runVars, response, artifact, lastWriter,
                 calls, served, chunkVars>>

\* await generateIntentBasedQuery(query, context, schema), then
\* parseMongoQuery(response.mongoQuery) and the call of executeMongoQuery
\* (lines 117-120)
GenerateAndParse ==
  /\ qpc = "generate"
  /\ QCalled("generate", "")
  /\ \E g \in Generations :
       IF g.kind = "throw"
         THEN /\ Caught(g.error)
              /\ UNCHANGED <<generated, parsed>>
         ELSE /\ generated' = g.value
              /\ IF parseMongoQuery(g.value.mongoQuery).kind = "throw"
                   THEN /\ Caught(parseMongoQuery(g.value.mongoQuery).error)
                        /\ UNCHANGED parsed
                   ELSE /\ parsed' = parseMongoQuery(g.value.mongoQuery).value
                        /\ qpc' = "construct"
                        /\ UNCHANGED qresult
  /\ UNCHANGED <<qrequest, qclient, qpending, qresponse>>
  /\ UNCHANGED <<pc, request, coll, sampleVars, schema, runVars, response, artifact, lastWriter,
                 calls, served, chunkVars>>

\* How executeMongoQuery settles: at its caller when it was called directly,
\* inside the try block of generateMongoQuery otherwise.
ExecSettles(outcome) ==
  IF qrequest.entry = "execute"
    THEN /\ qresult' = outcome
         /\ qpc' = "settled"
    ELSE IF outcome.kind = "throw"
      THEN Caught(outcome.error)
      ELSE /\ qresult' = Return(Success(generated, outcome.value))
           /\ qpc' = "respond"

\* const client = new MongoClient(process.env.MONGODB_URI || ''), before the
\* try block: an unset or malformed MONGODB_URI makes the constructor throw
Construct ==
  /\ qpc = "construct"
  /\ IF qrequest.validUri
       THEN /\ qclient' = "new"
            /\ qpc' = "qconnect"
            /\ UNCHANGED qresult
       ELSE /\ ExecSettles(Throw("MongoParseError"))
            /\ UNCHANGED qclient
  /\ UNCHANGED <<qrequest, generated, parsed, qcalls, qpending, qresponse>>
  /\ UNCHANGED <<pc, request, coll, sampleVars, schema, runVars, response, artifact, lastWriter,
                 calls, served, chunkVars>>

\* await client.connect(); client.db().collection(collectionName)
ConnectQuery(io) ==
  /\ qpc = "qconnect"
  /\ QCalled("connect", "")
  /\ \E ok \in io :
       IF ok
         THEN /\ qclient' = "connected"
              /\ qpc' = "operate"
              /\ UNCHANGED qpending
         ELSE /\ qpending' = Throw("MongoError: connect")
              /\ qpc' = "qclosing"
              /\ UNCHANGED qclient
  /\ UNCHANGED <<qrequest, generated, parsed, qresult, qresponse>>
  /\ UNCHANGED <<pc, request, coll, sampleVars, schema, runVars, response, artifact, lastWriter,
                 calls, served, chunkVars>>

\* The results of a driver call: findOne gives [result] or [], the others
\* the array of toArray().
ResultsOf(outcome) == IF outcome = "docs" THEN <<"doc">> ELSE <<>>

\* Lines 9-21: the driver call of the operation, or the throw of line 18
Operate(io) ==
  /\ qpc = "operate"
  /\ IF parsed.operation \in {"aggregate", "find", "findOne"}
       THEN /\ QCalled(parsed.operation, parsed.collectionName)
            /\ \E outcome \in io :
                 qpending' = IF outcome = "fail" THEN Throw("MongoError: " \o parsed.operation)
                             ELSE Return(ResultsOf(outcome))
       ELSE /\ qpending' = Throw("Unsupported query operation")
            /\ UNCHANGED qcalls
  /\ qpc' = "qclosing"
  /\ UNCHANGED <<qrequest, generated, parsed, qclient, qresult, qresponse>>
  /\ UNCHANGED <<pc, request, coll, sampleVars, schema, runVars, response, artifact, lastWriter,
                 calls, served, chunkVars>>

\* finally { await client.close() } of executeMongoQuery
CloseQuery(io) ==
  /\ qpc = "qclosing"
  /\ QCalled("close", "")
  /\ \E ok \in io :
       IF ok
         THEN /\ qclient' = "closed"
              /\ ExecSettles(qpending)
         ELSE /\ ExecSettles(Throw("MongoError: close"))
              /\ UNCHANGED qclient
  /\ UNCHANGED <<qrequest, generated, parsed, qpending, qresponse>>
  /\ UNCHANGED <<pc, request, coll, sampleVars, schema, runVars, response, artifact, lastWriter,
                 calls, served, chunkVars>>

Cancelled == [status |-> 200, message |-> "Query cancelled as per user request", success |-> FALSE]
AskClarification == [status |-> 200, needsClarification |-> TRUE]

\* rag.controller.ts, lines 134-162: what executeQuery answers once
\* generateMongoQuery has settled
RespondQuery ==
  /\ qpc = "respond"
  /\ qresponse' =
       IF qresult.kind = "throw"
         THEN [status |-> 500, error |-> "Failed to execute query", details |-> qresult.error]
       ELSE IF qresult.value.needsClarification /\ qrequest.proceed = "undefined"
         THEN AskClarification
       ELSE IF qrequest.proceed = "false"
         THEN Cancelled
       ELSE [status |-> 200, result |-> qresult.value]
  /\ qpc' = "done"
  /\ UNCHANGED <<qrequest, generated, parsed, qclient, qcalls, qpending, qresult>>
  /\ UNCHANGED <<pc, request, coll, sampleVars, schema, runVars, response, artifact, lastWriter,
                 calls, served, chunkVars>>

(***************************************************************************)
(* SchemaChunker.chunkSchema (chunk_schema.ts, lines 57-74): the loop that *)
(* chunks the fields of one collection.  The fields are kept by their      *)
(* positions 0 .. fields.length - 1.                                       *)
(***************************************************************************)
\* this.maxFieldsPerChunk - this.overlapFields
ChunkStep == chunker.maxFieldsPerChunk - chunker.overlapFields

\* fields.slice(i, i + this.maxFieldsPerChunk)
Slice(n, from, to) == [k \in 1..(Min(to, n) - Min(from, n)) |-> from + k - 1]

\* Math.ceil(a / b) for a >= 0 and b > 0
Ceil(a, b) == (a + b - 1) \div b

\* One pass of the loop body: the chunk pushed for i, and i += step
PushChunk ==
  /\ chunker.fields > 0
  /\ chunkI < chunker.fields
  /\ chunks' = Append(chunks,
       [type |-> "collection_fields",
        chunkIndex |-> chunkI \div ChunkStep,
        totalChunks |-> Ceil(chunker.fields, ChunkStep),
        fields |-> Slice(chunker.fields, chunkI, chunkI + chunker.maxFieldsPerChunk),
        isFirstChunk |-> chunkI = 0,
        isLastChunk |-> chunkI + chunker.maxFieldsPerChunk >= chunker.fields])
  /\ chunkI' = chunkI + ChunkStep
  /\ UNCHANGED chunker
  /\ UNCHANGED <<pc, request, coll, sampleVars, schema, runVars, response, artifact, lastWriter,
                 calls, served, queryVars>>

(***************************************************************************)
(* Specifications                                                          *)
(***************************************************************************)
\* No query request is in progress.
QueryQuiet ==
  /\ qpc = "idle"
  /\ qrequest = [entry |-> "none", hasQuery |-> FALSE, proceed |-> "undefined", validUri |-> FALSE]
  /\ generated = NoQuery
  /\ parsed = NoParsed
  /\ qclient = "none"
  /\ qcalls = <<>>
  /\ qpending = NoOutcome
  /\ qresult = NoOutcome
  /\ qresponse = NoResponse

\* The chunker is not running.
ChunkQuiet ==
  /\ chunker = [fields |-> 0, maxFieldsPerChunk |-> 0, overlapFields |-> 0]
  /\ chunkI = 0
  /\ chunks = <<>>

AnalysisQuiet ==
  /\ documents = [r \in Runs |-> <<>>]
  /\ totalDocuments = [r \in Runs |-> 0]
  /\ docIdx = [r \in Runs |-> 1]
  /\ acc = [r \in Runs |-> EmptyAcc]
  /\ schema = [r \in Runs |-> NoSchema]
  /\ collIdx = [r \in Runs |-> 1]
  /\ collectionSchemas = [r \in Runs |-> <<>>]
  /\ client = [r \in Runs |-> "none"]
  /\ pending = [r \in Runs |-> NoOutcome]
  /\ result = [r \in Runs |-> NoOutcome]
  /\ response = [r \in Runs |-> NoResponse]
  /\ artifact = PreviousArtifact
  /\ lastWriter = "none"
  /\ calls = [r \in Runs |-> <<>>]
  /\ served = [r \in Runs |-> <<>>]

Quiet == AnalysisQuiet /\ QueryQuiet /\ ChunkQuiet

\* Run A is one call of analyzeCollectionBySampling on the sample s.
SamplingOf(s) ==
  /\ pc = [r \in Runs |-> IF r = "A" THEN "find" ELSE "idle"]
  /\ request = [r \in Runs |-> [entry |-> "sampling", hasUri |-> TRUE, validUri |-> TRUE]]
  /\ coll = [r \in Runs |-> IF r = "A" THEN Handle("goals", s, Len(s), Absent, Options(Absent))
                            ELSE NoCollection]
  /\ Quiet

\* Sampling of every sample of up to MaxDocs documents of the domain.
Init == \E s \in Samples : SamplingOf(s)

Next ==
  \E r \in Runs :
    \/ Find(r, {TRUE})
    \/ CountDocuments(r, {TRUE})
    \/ ProcessDocument(r)
    \/ Unify(r)

Spec == Init /\ [][Next]_vars

\* Sampling of the samples with many distinct strings at one path.
InitEnum == \E s \in LongSamples : SamplingOf(s)

SpecEnum == InitEnum /\ [][Next]_vars

\* Sampling of one document that holds a probe value at some depth.
InitIdent == \E v \in ProbeValues, n \in 1..MaxDepth : SamplingOf(<<ProbeDoc(v, n)>>)

SpecIdent == InitIdent /\ [][Next]_vars

\* Sampling of one document that holds a value of InferValues at some depth.
InitInfer == \E v \in InferValues, n \in 1..MaxDepth : SamplingOf(<<ProbeDoc(v, n)>>)

SpecInfer == InitInfer /\ [][Next]_vars

\* One request to the controller, with every outcome of every external call.
InitDb ==
  /\ pc = [r \in Runs |-> IF r = "A" THEN "request" ELSE "idle"]
  /\ \E uri \in {"missing", "malformed", "valid"} :
       request = [r \in Runs |-> [entry |-> "controller", hasUri |-> uri # "missing",
                                  validUri |-> uri = "valid"]]
  /\ coll = [r \in Runs |-> NoCollection]
  /\ Quiet

NextDb ==
  \E r \in Runs :
    \/ ReceiveRequest(r)
    \/ Connect(r, BOOLEAN)
    \/ NextCollection(r, DbHandles)
    \/ TryMongoose(r)
    \/ TryValidator(r)
    \/ Find(r, BOOLEAN)
    \/ CountDocuments(r, BOOLEAN)
    \/ ProcessDocument(r)
    \/ Unify(r)
    \/ Enrich(r, "any")
    \/ ReturnSchema(r)
    \/ Close(r, BOOLEAN)
    \/ RespondError(r)
    \/ Mkdir(r, BOOLEAN)
    \/ OpenFile(r, BOOLEAN)
    \/ WriteFile(r, BOOLEAN)
    \/ Respond(r)

SpecDb == InitDb /\ [][NextDb]_vars

\* Two requests in progress at once, interleaved at their external calls.
InitConc ==
  /\ pc = [r \in Runs |-> "request"]
  /\ request = [r \in Runs |-> [entry |-> "controller", hasUri |-> TRUE, validUri |-> TRUE]]
  /\ coll = [r \in Runs |-> NoCollection]
  /\ Quiet

NextConc ==
  \E r \in Runs :
    \/ ReceiveRequest(r)
    \/ Connect(r, {TRUE})
    \/ NextCollection(r, ConcHandles)
    \/ TryMongoose(r)
    \/ TryValidator(r)
    \/ Find(r, {TRUE})
    \/ CountDocuments(r, {TRUE})
    \/ ProcessDocument(r)
    \/ Unify(r)
    \/ Enrich(r, "plain")
    \/ ReturnSchema(r)
    \/ Close(r, {TRUE})
    \/ RespondError(r)
    \/ Mkdir(r, {TRUE})
    \/ OpenFile(r, {TRUE})
    \/ WriteFile(r, {TRUE})
    \/ Respond(r)

SpecConc == InitConc /\ [][NextConc]_vars

\* The outcomes of reading and parsing a JSON file.
FileOutcomes == {"ok", "ENOENT", "SyntaxError"}
\* The outcomes of a driver call that reads.
ReadOutcomes == {"fail", "none", "docs"}

\* One request to executeQuery, or one direct call of executeMongoQuery,
\* with every outcome of every external call.
InitQuery ==
  /\ \/ /\ qpc = "request"
        /\ \E hasQuery \in BOOLEAN, proceed \in {"undefined", "true", "false"}, validUri \in BOOLEAN :
             qrequest = [entry |-> "controller", hasQuery |-> hasQuery, proceed |-> proceed,
                         validUri |-> validUri]
        /\ parsed = NoParsed
     \/ /\ qpc = "construct"
        /\ \E validUri \in BOOLEAN :
             qrequest = [entry |-> "execute", hasQuery |-> TRUE, proceed |-> "undefined",
                         validUri |-> validUri]
        /\ parsed \in DirectCalls
  /\ generated = NoQuery
  /\ qclient = "none"
  /\ qcalls = <<>>
  /\ qpending = NoOutcome
  /\ qresult = NoOutcome
  /\ qresponse = NoResponse
  /\ pc = [r \in Runs |-> "idle"]
  /\ request = [r \in Runs |-> [entry |-> "controller", hasUri |-> TRUE, validUri |-> TRUE]]
  /\ coll = [r \in Runs |-> NoCollection]
  /\ AnalysisQuiet
  /\ ChunkQuiet

NextQuery ==
  \/ ReceiveQuery
  \/ ReadContext(FileOutcomes)
  \/ LoadSchemaAnalysis(BOOLEAN)
  \/ ReadSchema(FileOutcomes)
  \/ GenerateAndParse
  \/ Construct
  \/ ConnectQuery(BOOLEAN)
  \/ Operate(ReadOutcomes)
  \/ CloseQuery(BOOLEAN)
  \/ RespondQuery

SpecQuery == InitQuery /\ [][NextQuery]_vars

\* The chunker, configured with maxFieldsPerChunk > overlapFields >= 0, is
\* given a collection of 1..MaxFields fields.
InitChunk ==
  /\ \E n \in 1..MaxFields, size \in 1..MaxChunkSize :
       \E overlap \in 0..(size - 1) :
         chunker = [fields |-> n, maxFieldsPerChunk |-> size, overlapFields |-> overlap]
  /\ chunkI = 0
  /\ chunks = <<>>
  /\ pc = [r \in Runs |-> "idle"]
  /\ request = [r \in Runs |-> [entry |-> "controller", hasUri |-> TRUE, validUri |-> TRUE]]
  /\ coll = [r \in Runs |-> NoCollection]
  /\ AnalysisQuiet
  /\ QueryQuiet

NextChunk == PushChunk

SpecChunk == InitChunk /\ [][NextChunk]_vars

(***************************************************************************)
(* What a sample holds, read off the documents and not off the walker.     *)
(***************************************************************************)
IsPrefix(p, q) == Len(p) <= Len(q) /\ SubSeq(q, 1, Len(p)) = p

\* The values reached from v along the dotted path segs, descending through
\* object properties and, without extending the path, through array elements.
RECURSIVE ValuesAt(_, _)
ValuesAt(v, segs) ==
  IF segs = <<>> THEN {v}
  ELSE IF IsArray(v) THEN UNION {ValuesAt(v.elems[i], segs) : i \in DOMAIN v.elems}
  ELSE LET es == Entries(v)
       IN UNION {ValuesAt(es[i][2], SubSeq(segs, Len(es[i][1]) + 1, Len(segs))) :
                   i \in {j \in DOMAIN es : IsPrefix(es[j][1], segs)}}

\* The same for a document, whose _id is not part of the schema.
DocValuesAt(doc, segs) ==
  LET es == Entries(doc)
  IN UNION {ValuesAt(es[i][2], SubSeq(segs, Len(es[i][1]) + 1, Len(segs))) :
              i \in {j \in DOMAIN es : es[j][1] # Key("_id") /\ IsPrefix(es[j][1], segs)}}

\* The path is present in the document: it leads to a defined value.
PresentIn(doc, segs) == \E w \in DocValuesAt(doc, segs) : w # Undefined

\* The distinct strings a sample holds at a path.
ObservedStrings(docs, segs) ==
  {w.s : w \in {x \in UNION {DocValuesAt(docs[d], segs) : d \in DOMAIN docs} : x.k = "string"}}

Analyzed(r) == pc[r] = "analyzed"

(***************************************************************************)
(* Properties.                                                             *)
(***************************************************************************)

\* C1: in the schema the sampling analysis returns, required is true for a
\* path (top-level or nested) exactly when the path is present in every
\* sampled document.
C1_RequiredIffPresentEverywhere ==
  \A r \in Runs : Analyzed(r) =>
    \A key \in DOMAIN schema[r].fields :
      schema[r].fields[key].required
        <=> \A d \in DOMAIN documents[r] : PresentIn(documents[r][d], key)

\* The sample of C2: status = active, inactive, active.
StatusDoc(s) == Doc(<< <<Key("status"), Str(s)>> >>)
C2_Sample == <<StatusDoc("active"), StatusDoc("inactive"), StatusDoc("active")>>

\* A sample of 3 documents that all hold a string at the top-level key, with
\* 2 distinct values over the sample.
ThreeDocsTwoValues(docs, key) ==
  /\ Len(docs) = 3
  /\ \A d \in DOMAIN docs : HasProp(docs[d], key) /\ Prop(docs[d], key).k = "string"
  /\ Cardinality({Prop(docs[d], key).s : d \in DOMAIN docs}) = 2

\* C2 as stated: such a field is classified enum with the 2 distinct values
\* and required = true.
C2_ThreeDocsTwoValuesIsEnum ==
  \A r \in Runs : Analyzed(r) =>
    \A key \in DOMAIN schema[r].fields :
      ThreeDocsTwoValues(documents[r], key) =>
        /\ schema[r].fields[key].type = "enum"
        /\ Range(schema[r].fields[key].values) = {Prop(documents[r][d], key).s : d \in DOMAIN documents[r]}
        /\ schema[r].fields[key].required

\* C2 amended: such a field is classified string, without values, and
\* required = true (2 distinct values are not fewer than half of 3 documents).
C2_ThreeDocsTwoValuesIsString ==
  \A r \in Runs : Analyzed(r) =>
    \A key \in {Key("status"), Key("a"), Key("b"), Key("tags")} :
      ThreeDocsTwoValues(documents[r], key) =>
        /\ key \in DOMAIN schema[r].fields
        /\ schema[r].fields[key] = [type |-> "string", required |-> TRUE]

C2_Witness == Analyzed("A") /\ documents["A"] = C2_Sample

\* C3: a path at which the sample holds 11 or more distinct strings is never
\* of type enum in the final fields map.
C3_ManyDistinctNeverEnum ==
  \A r \in Runs : Analyzed(r) =>
    \A key \in DOMAIN schema[r].fields :
      Cardinality(ObservedStrings(documents[r], key)) > EnumMaxValues
        => schema[r].fields[key].type # "enum"

\* C4: required = true for a path implies that the path leads to a defined,
\* non-null value in every sampled document.
C4_RequiredImpliesNonNull ==
  \A r \in Runs : Analyzed(r) =>
    \A key \in DOMAIN schema[r].fields :
      schema[r].fields[key].required =>
        \A d \in DOMAIN documents[r] :
          /\ PresentIn(documents[r][d], key)
          /\ \A w \in DocValuesAt(documents[r][d], key) : w.k \notin {"null", "undefined"}

\* C5: every key of the fields map, while it is built and when it is
\* returned, is a path present in a document the walker has already seen.
C5_NoFabricatedPath ==
  \A r \in Runs :
    /\ \A key \in DOMAIN acc[r].fields :
         \E d \in 1..(docIdx[r] - 1) : PresentIn(documents[r][d], key)
    /\ Analyzed(r) =>
         \A key \in DOMAIN schema[r].fields :
           \E d \in DOMAIN documents[r] : PresentIn(documents[r][d], key)

\* A schema with the paths of an array of objects and of an array inside it.
C5_Witness ==
  /\ Analyzed("A")
  /\ {<<"a", "b">>, <<"a", "c">>, Key("status")} \subseteq DOMAIN schema["A"].fields

\* A native ObjectId, or an object that carries a 12-byte buffer (as an
\* array of bytes, a Uint8Array or a Buffer).
IdentifierShaped(v) ==
  \/ v = NativeOid
  \/ /\ v.k = "object"
     /\ HasProp(v, Key("buffer"))
     /\ LET b == Prop(v, Key("buffer"))
        IN \/ IsArray(b) /\ Len(b.elems) = ObjectIdBytes
           \/ IsUint8Array(b) /\ b.len = ObjectIdBytes

\* C6: an identifier-shaped value, at any depth, is recorded with the single
\* type ObjectId by the inferencer and by the walker, which does not descend
\* into it; and the two identifier tests agree on every value.
C6_IdentifierIsObjectIdForBoth ==
  \A r \in Runs : docIdx[r] > 1 =>
    \A v \in ProbeValues, n \in 1..MaxDepth :
      documents[r] = <<ProbeDoc(v, n)>> =>
        /\ InferencerIsObjectId(v) <=> WalkerIsObjectIdLike(v)
        /\ IdentifierShaped(v) =>
             /\ acc[r].fields[ProbePath(n)] = {"ObjectId"}
             /\ acc[r].fieldTypes[ProbePath(n)] = [type |-> "ObjectId"]
             /\ \A key \in DOMAIN acc[r].fields : IsPrefix(ProbePath(n), key) => key = ProbePath(n)

(***************************************************************************)
(* The whole-database run                                                  *)
(***************************************************************************)
Settled(r) == result[r] # NoOutcome

\* The fields of entry i of a returned DatabaseSchema hold one enrichment
\* record for every field that the analysis of that collection produced.
EnrichesEvery(c, fields) ==
  /\ c.fields.j = "array"
  /\ {c.fields.items[k].field : k \in DOMAIN c.fields.items} = DOMAIN fields

\* C7: analyzeDatabase returns every named collection, in order, each with
\* the enrichment of all its fields, or else it rejects; a run that returns
\* has no collection missing and no collection's fields emptied or cut short.
C7_CompleteOrExplicitFailure ==
  \A r \in Runs :
    result[r].kind = "return" =>
      LET cs == result[r].value.collections
      IN /\ Len(cs) = Len(Collections)
         /\ \A i \in DOMAIN cs :
              /\ cs[i].collectionName = Collections[i]
              /\ EnrichesEvery(cs[i], served[r][i].fields)

\* The enrichment call of a collection failed: the service threw and no
\* repair was possible (no Error, or no content) or the repaired content
\* did not parse, or the arguments it sent did not parse.
EnrichmentFails(resp) ==
  IF resp.k = "thrown"
    THEN ~resp.isError \/ resp.content = Absent \/ ~JsonParses(Repair(resp.content))
    ELSE resp.arguments # Absent /\ ~JsonParses(resp.arguments)

\* The calls of run r after its last enrichment call.
RECURSIVE AfterLastEnrich(_)
AfterLastEnrich(cs) ==
  IF cs = <<>> \/ cs[Len(cs)][1] = "enrich" THEN <<>>
  ELSE Append(AfterLastEnrich(SubSeq(cs, 1, Len(cs) - 1)), cs[Len(cs)])

\* What holds of a run, for either reading of "rejects with that error",
\* once the enrichment of its collection i has failed: the try block ended
\* with that error, nothing but the close of the client was called since,
\* no collection follows, and the run neither returns a schema, nor answers
\* with one, nor writes the artifact.
AbortedAt(r, i) ==
  /\ i = Len(served[r])
  /\ pending[r].kind = "throw"
  /\ pending[r].error.stage = "enrich"
  /\ pending[r].error.collection = served[r][i].handle.name
  /\ \A k \in DOMAIN AfterLastEnrich(calls[r]) : AfterLastEnrich(calls[r])[k] = <<"close", "">>
  /\ Len(collectionSchemas[r]) = i - 1
  /\ result[r].kind # "return"
  /\ response[r].status \in {0, 500}
  /\ lastWriter # r

\* C8 as stated: when enrichment fails for a collection, analyzeDatabase
\* rejects with that very error, returns no partial schema and processes no
\* later collection.
C8_RejectsWithEnrichmentError ==
  \A r \in Runs : \A i \in DOMAIN served[r] :
    EnrichmentFails(served[r][i].resp) =>
      /\ AbortedAt(r, i)
      /\ Settled(r) => result[r] = pending[r]

\* C8 amended: when enrichment fails for a collection, analyzeDatabase
\* returns no partial schema and processes no later collection, and it
\* rejects with that error if closing the client succeeds, and with the
\* error of the close if it does not.
C8_RejectsAfterEnrichmentFailure ==
  \A r \in Runs : \A i \in DOMAIN served[r] :
    EnrichmentFails(served[r][i].resp) =>
      /\ AbortedAt(r, i)
      /\ Settled(r) =>
           /\ result[r].kind = "throw"
           /\ IF client[r] = "closed" THEN result[r] = pending[r]
              ELSE result[r].error.stage = "close"

\* The second collection's enrichment failed after the first was analysed
\* and enriched, and the caller was answered with the error.
C8_Witness ==
  \E r \in Runs :
    /\ Len(served[r]) = 2
    /\ ~EnrichmentFails(served[r][1].resp)
    /\ EnrichmentFails(served[r][2].resp)
    /\ Len(collectionSchemas[r]) = 1
    /\ client[r] = "closed"
    /\ result[r].kind = "throw"
    /\ result[r].error.stage = "enrich"
    /\ response[r].status = 500

\* C9: the schema analyzeCollection returns carries the document count of
\* the collection, whichever strategy produced it.
C9_TotalDocumentsIsCollectionCount ==
  \A r \in Runs :
    (pc[r] = "analyzed" /\ request[r].entry = "controller") =>
      schema[r].totalDocuments = coll[r].total

(***************************************************************************)
(* Two concurrent runs                                                     *)
(***************************************************************************)
\* The sampling of a list of documents by a run that is alone.
RECURSIVE WalkAll(_, _)
WalkAll(a, docs) ==
  IF docs = <<>> THEN a
  ELSE WalkAll(ProcessTopLevel(a, Entries(Head(docs)), 1), Tail(docs))

\* What analyzeCollection returns for a handle to a run that is alone.
AnalyzedAlone(h) ==
  IF h.model # Absent /\ ~ModelThrows(h.model)
    THEN convertMongooseSchema(h.model, h.name)
  ELSE IF h.options.k = "options" /\ h.options.jsonSchema # Absent
          /\ ~ValidatorThrows(h.options.jsonSchema)
    THEN convertJsonSchema(h.options.jsonSchema, h.name)
  ELSE LET docs == SubSeq(h.docs, 1, Min(SampleSize, Len(h.docs)))
       IN [collectionName |-> h.name,
           fields |-> ConvertFieldInfo(WalkAll(EmptyAcc, docs), docs),
           totalDocuments |-> h.total]

\* What analyzeDatabase returns to a run that is alone, given the handles
\* it was given and the responses of the enrichment service.
ReturnedAlone(s) ==
  DatabaseSchema([i \in DOMAIN s |->
    [AnalyzedAlone(s[i].handle) EXCEPT !.fields = enrichFieldsWithOpenAI(s[i].resp).value]])

\* Each run returns what it would return alone.
RunsAreIndependent ==
  \A r \in Runs : result[r].kind = "return" => result[r].value = ReturnedAlone(served[r])

\* C10: two concurrent runs share no accumulator: each returns what it
\* would return alone, and once both are over the artifact is the text of
\* the result of the run whose write completed last.
C10_IndependentRunsLastWriteWins ==
  /\ RunsAreIndependent
  /\ ((\A r \in Runs : pc[r] = "done") /\ lastWriter # "none") =>
       artifact = FileOf(Stringify(result[lastWriter].value))

(***************************************************************************)
(* Order of the run                                                        *)
(***************************************************************************)
\* The place of a name in the collection list of line 398.
Position(name) == CHOOSE i \in DOMAIN CollectionNames : CollectionNames[i] = name

\* The calls of a run that address a collection.
OnCollection(call) == call[2] # ""

\* C11: within one run the collections are taken one at a time in list
\* order: the calls that address a collection follow the list, a collection
\* gets one enrichment call, which is its last call, the calls of the next
\* collection start only after it, and the returned collections are in
\* list order.
C11_OneCollectionAtATimeInListOrder ==
  \A r \in Runs :
    /\ \A i, j \in DOMAIN calls[r] :
         (i < j /\ OnCollection(calls[r][i]) /\ OnCollection(calls[r][j])) =>
           /\ Position(calls[r][i][2]) <= Position(calls[r][j][2])
           /\ calls[r][i][1] = "enrich" => calls[r][i][2] # calls[r][j][2]
           /\ calls[r][i][2] # calls[r][j][2] =>
                \E k \in i..(j - 1) : calls[r][k] = <<"enrich", calls[r][i][2]>>
    /\ result[r].kind = "return" =>
         \A i \in DOMAIN result[r].value.collections :
           result[r].value.collections[i].collectionName = CollectionNames[i]

\* A run returned after reading and enriching two collections.
C11_Witness ==
  \E r \in Runs :
    /\ result[r].kind = "return"
    /\ Len(result[r].value.collections) = NumCollections
    /\ \E i, j \in DOMAIN calls[r] :
         /\ i < j
         /\ calls[r][i] = <<"enrich", CollectionNames[1]>>
         /\ calls[r][j] = <<"find", CollectionNames[2]>>

(***************************************************************************)
(* Arrays of strings, enrichment records, fixed points                     *)
(***************************************************************************)
\* vals lists the distinct elements of the strings ss, each once, in the
\* order of their first occurrence.
ListsDistinct(vals, ss) ==
  /\ {vals[i] : i \in DOMAIN vals} = {ss[i] : i \in DOMAIN ss}
  /\ \A i, j \in DOMAIN vals : i < j =>
       /\ vals[i] # vals[j]
       /\ \E a \in DOMAIN ss : ss[a] = vals[i] /\ \A b \in DOMAIN ss : ss[b] = vals[j] => a < b

\* A non-empty array of strings with a repeated element and at most 10
\* distinct elements.
RepeatingStringArray(v) ==
  /\ IsArray(v)
  /\ Len(v.elems) > 0
  /\ \A i \in DOMAIN v.elems : v.elems[i].k = "string"
  /\ Cardinality({v.elems[i].s : i \in DOMAIN v.elems}) < Len(v.elems)
  /\ Cardinality({v.elems[i].s : i \in DOMAIN v.elems}) <= 10

\* The path key is held by the one document d of the sample, as the value v.
OnlyIn(docs, key, d, v) ==
  /\ DocValuesAt(docs[d], key) = {v}
  /\ \A e \in DOMAIN docs : e # d => ~PresentIn(docs[e], key)

\* C12: a path that one document of the sample holds as a repeating array
\* of strings, and no other document holds, ends as an enum whose values
\* are the distinct elements of the array.
C12_RepeatingStringArrayIsEnum ==
  \A r \in Runs : Analyzed(r) =>
    \A key \in DOMAIN schema[r].fields : \A d \in DOMAIN documents[r] :
      \A v \in DocValuesAt(documents[r][d], key) :
        (RepeatingStringArray(v) /\ OnlyIn(documents[r], key, d, v)) =>
          /\ schema[r].fields[key].type = "enum"
          /\ ListsDistinct(schema[r].fields[key].values, [i \in DOMAIN v.elems |-> v.elems[i].s])

\* The array [x, y, x, z] was sampled in one document of several and came
\* out as an enum of x, y, z.
C12_Witness ==
  /\ Analyzed("A")
  /\ Len(documents["A"]) > 1
  /\ \E d \in DOMAIN documents["A"] :
       OnlyIn(documents["A"], Key("tags"), d, Arr(<<Str("x"), Str("y"), Str("x"), Str("z")>>))
  /\ schema["A"].fields[Key("tags")].values = <<"x", "y", "z">>

\* items, properties and values of a FieldInfo go with its type, at every
\* level of it.
RECURSIVE Shaped(_)
Shaped(fi) ==
  /\ "items" \in DOMAIN fi <=> fi.type = "array"
  /\ "properties" \in DOMAIN fi <=> fi.type = "object"
  /\ "values" \in DOMAIN fi <=> fi.type = "enum"
  /\ "items" \in DOMAIN fi => Shaped(fi.items)
  /\ "properties" \in DOMAIN fi => \A key \in DOMAIN fi.properties : Shaped(fi.properties[key])
  /\ "additionalProperties" \in DOMAIN fi => Shaped(fi.additionalProperties)

\* C13: in every FieldInfo of a schema that analyzeCollection returns, by
\* any strategy and at any level, items is present exactly for an array,
\* properties exactly for an object, values exactly for an enum.
C13_ShapeFollowsType ==
  \A r \in Runs :
    pc[r] = "analyzed" => \A key \in DOMAIN schema[r].fields : Shaped(schema[r].fields[key])

\* The service sent a list of records, as parsable arguments or as the
\* content of an error that the repair mends; and the list it sent.
SentRecords(resp) ==
  IF resp.k = "completion"
    THEN /\ resp.arguments # Absent
         /\ JsonParses(resp.arguments)
         /\ resp.arguments.value.j = "object"
         /\ resp.arguments.value.enrichedFields # Absent
    ELSE resp.isError /\ resp.content # Absent /\ JsonParses(Repair(resp.content))

RecordsSent(resp) ==
  IF resp.k = "completion" THEN resp.arguments.value.enrichedFields ELSE resp.content.value

\* C14: after the enrichment step the fields of a collection are exactly
\* the records the service sent; a submitted field the service left out has
\* no record, and none is made up for it.
C14_FieldsAreTheRecordsSent ==
  \A r \in Runs : \A i \in DOMAIN collectionSchemas[r] :
    SentRecords(served[r][i].resp) =>
      LET sent == RecordsSent(served[r][i].resp).items
          kept == collectionSchemas[r][i].fields
      IN /\ kept = JsonArray(sent)
         /\ \A key \in DOMAIN served[r][i].fields :
              (\A k \in DOMAIN sent : sent[k].field # key) =>
                \A k \in DOMAIN kept.items : kept.items[k].field # key

\* The service left one submitted field out, and the run returned.
C14_Witness ==
  \E r \in Runs :
    /\ result[r].kind = "return"
    /\ \E i \in DOMAIN served[r] :
         /\ SentRecords(served[r][i].resp)
         /\ Len(RecordsSent(served[r][i].resp).items) + 1 = Cardinality(DOMAIN served[r][i].fields)
         /\ Len(result[r].value.collections[i].fields.items) + 1
              = Cardinality(DOMAIN served[r][i].fields)

(***************************************************************************)
(* The enum rule of the unifier and first-writer-wins                      *)
(***************************************************************************)
RECURSIVE Flat(_)
Flat(seqs) == IF seqs = <<>> THEN <<>> ELSE Head(seqs) \o Flat(Tail(seqs))

\* The values met along the dotted path segs from v, one per occurrence, in
\* traversal order.
RECURSIVE OccurrencesAt(_, _)
OccurrencesAt(v, segs) ==
  IF segs = <<>> THEN <<v>>
  ELSE IF IsArray(v) THEN Flat([i \in DOMAIN v.elems |-> OccurrencesAt(v.elems[i], segs)])
  ELSE LET es == Entries(v)
       IN Flat([i \in DOMAIN es |->
                  IF IsPrefix(es[i][1], segs)
                    THEN OccurrencesAt(es[i][2], SubSeq(segs, Len(es[i][1]) + 1, Len(segs)))
                    ELSE <<>>])

\* The same for a document and for a sample.
DocOccurrencesAt(doc, segs) ==
  LET es == Entries(doc)
  IN Flat([i \in DOMAIN es |->
             IF es[i][1] # Key("_id") /\ IsPrefix(es[i][1], segs)
               THEN OccurrencesAt(es[i][2], SubSeq(segs, Len(es[i][1]) + 1, Len(segs)))
               ELSE <<>>])

SampleOccurrencesAt(docs, segs) == Flat([d \in DOMAIN docs |-> DocOccurrencesAt(docs[d], segs)])

OnlyStrings(occ) == \A i \in DOMAIN occ : occ[i].k = "string"

\* C16: a string path with one observed value and no repeat over the sample
\* is not an enum; for a path observed as strings only, enum requires fewer
\* distinct values than occurrences, besides at most 10 distinct values and
\* fewer than half the number of sampled documents.
C16_EnumNeedsRepeat ==
  \A r \in Runs : Analyzed(r) =>
    \A key \in DOMAIN schema[r].fields :
      LET occ == SampleOccurrencesAt(documents[r], key)
          distinct == Cardinality({occ[i] : i \in DOMAIN occ})
      IN (OnlyStrings(occ) /\ schema[r].fields[key].type = "enum") =>
           /\ distinct < Len(occ)
           /\ distinct <= 10
           /\ 2 * distinct < Len(documents[r])

\* The sample holds the path both as a string and as a value of another
\* type (null and undefined aside).
MixedWithString(occ) ==
  /\ \E i \in DOMAIN occ : occ[i].k = "string"
  /\ \E i \in DOMAIN occ : occ[i].k \notin {"string", "null", "undefined"}

\* C17: a path that the sample holds as a string in one place and as a
\* non-string in another is never classified enum.
C17_MixedPathIsNeverEnum ==
  \A r \in Runs : Analyzed(r) =>
    \A key \in DOMAIN schema[r].fields :
      MixedWithString(SampleOccurrencesAt(documents[r], key)) =>
        schema[r].fields[key].type # "enum"

\* The enum rule of the unifier decided the path.
EnumRuleApplied(r, key) ==
  /\ "string" \in acc[r].fields[key]
  /\ UnifierQualifiesAsEnum(acc[r].uniqueValues[key], documents[r])

\* C18: a path that the enum rule does not decide ends, required aside, as
\* the FieldInfo inferred from its first occurrence in document and
\* traversal order.
C18_FirstWriterWins ==
  \A r \in Runs : Analyzed(r) =>
    \A key \in DOMAIN schema[r].fields :
      ~EnumRuleApplied(r, key) =>
        schema[r].fields[key]
          = [required |-> schema[r].fields[key].required]
              @@ getFieldType(SampleOccurrencesAt(documents[r], key)[1])

(***************************************************************************)
(* The strategies of analyzeCollection                                     *)
(***************************************************************************)
\* The calls made on the collection under analysis, in order.
CollectionCalls(r) ==
  LET cs == SelectSeq(AfterLastEnrich(calls[r]), OnCollection)
  IN [k \in DOMAIN cs |-> cs[k][1]]

InAnalysis(r) == pc[r] \in {"mongoose", "options", "find", "count", "walk", "analyzed"}

\* A native model is registered under the name of the collection.
NativeFound(h) == h.model # Absent

\* The native strategy, the declared-rules strategy produce a schema.
NativeApplies(h) == h.model # Absent /\ ~ModelThrows(h.model)
DeclaredApplies(h) ==
  /\ h.options.k = "options"
  /\ h.options.jsonSchema # Absent
  /\ ~ValidatorThrows(h.options.jsonSchema)

\* C19 as stated: the strategies are tried in the order native, declared
\* rules, sampling, and the first that applies gives the result; options()
\* is never called when a native model was found, and find and
\* countDocuments are never called when a declared schema gave the result.
C19_OptionsNeverCalledWhenModelFound ==
  \A r \in Runs : InAnalysis(r) =>
    /\ IsPrefix(CollectionCalls(r), <<"options", "find", "countDocuments">>)
    /\ NativeFound(coll[r]) => CollectionCalls(r) = <<>>
    /\ (NativeApplies(coll[r]) \/ DeclaredApplies(coll[r])) =>
         \A k \in DOMAIN CollectionCalls(r) : CollectionCalls(r)[k] = "options"
    /\ pc[r] = "analyzed" => schema[r] = AnalyzedAlone(coll[r])

\* C19 amended: the same, with options() never called when the native
\* model was found and converted; a model whose conversion throws is
\* followed by the call of options().
C19_StrategiesInOrderFirstThatApplies ==
  \A r \in Runs : InAnalysis(r) =>
    /\ IsPrefix(CollectionCalls(r), <<"options", "find", "countDocuments">>)
    /\ NativeApplies(coll[r]) => CollectionCalls(r) = <<>>
    /\ (NativeApplies(coll[r]) \/ DeclaredApplies(coll[r])) =>
         \A k \in DOMAIN CollectionCalls(r) : CollectionCalls(r)[k] = "options"
    /\ pc[r] = "analyzed" =>
         /\ schema[r] = AnalyzedAlone(coll[r])
         /\ (~NativeApplies(coll[r]) /\ DeclaredApplies(coll[r])) => CollectionCalls(r) = <<"options">>
         /\ (~NativeApplies(coll[r]) /\ ~DeclaredApplies(coll[r])) =>
              CollectionCalls(r) = <<"options", "find", "countDocuments">>

\* Each strategy has given the result of some collection: the native one
\* without a call, the declared rules after options() alone.
C19_Witness ==
  \E r \in Runs :
    /\ pc[r] = "analyzed"
    /\ NativeApplies(coll[r])
    /\ CollectionCalls(r) = <<>>
    /\ schema[r] = convertMongooseSchema(coll[r].model, coll[r].name)
    /\ Len(served[r]) = 1
    /\ ~NativeApplies(served[r][1].handle)
    /\ DeclaredApplies(served[r][1].handle)

\* The native model is found and its conversion throws; options() rejects
\* or the conversion of the declared rules throws.  A model that is not
\* registered and a mongoose that cannot be loaded both leave no model.
NativeFails(h) == h.model # Absent /\ ModelThrows(h.model)
DeclaredFails(h) ==
  \/ h.options.k = "rejects"
  \/ h.options.jsonSchema # Absent /\ ValidatorThrows(h.options.jsonSchema)

\* The analysis of a collection rejected.
AnalysisRejected(r) ==
  /\ pending[r].kind = "throw"
  /\ pending[r].error.collection # ""
  /\ pending[r].error.stage # "enrich"

\* C20: a failure of the native or of the declared strategy is not
\* surfaced and the next strategy is tried; analyzeCollection rejects only
\* with a failure of the sampling calls.
C20_OnlySamplingFailureSurfaces ==
  \A r \in Runs :
    /\ AnalysisRejected(r) =>
         /\ pending[r].error.stage \in {"find", "countDocuments"}
         /\ ~NativeApplies(coll[r]) /\ ~DeclaredApplies(coll[r])
    /\ (InAnalysis(r) /\ pc[r] \notin {"mongoose", "options"} /\ NativeFails(coll[r])) =>
         Len(CollectionCalls(r)) >= 1 /\ CollectionCalls(r)[1] = "options"
    /\ (InAnalysis(r) /\ pc[r] \notin {"mongoose", "options", "find"}
          /\ ~NativeApplies(coll[r]) /\ DeclaredFails(coll[r])) =>
         Len(CollectionCalls(r)) >= 2 /\ CollectionCalls(r)[2] = "find"
    /\ (pc[r] = "analyzed" /\ (NativeFails(coll[r]) \/ DeclaredFails(coll[r]))) =>
         schema[r] = AnalyzedAlone(coll[r])

\* After a collection whose model did not convert was analysed from its
\* declared rules, the next one, whose options() rejects, failed in find.
C20_Witness ==
  \E r \in Runs :
    /\ Len(served[r]) = 1
    /\ NativeFails(served[r][1].handle)
    /\ coll[r].options.k = "rejects"
    /\ pending[r] = Throw(Error("MongoError", "find", coll[r].name))
    /\ CollectionCalls(r) = <<"options", "find">>

\* The text the service sent: the function_call arguments of a completion,
\* or the content carried by the error it failed with.
OutputOf(resp) == IF resp.k = "completion" THEN resp.arguments ELSE resp.content

\* A text with bare keys or trailing commas that parses once repaired.
Mendable(text) ==
  text # Absent /\ (text.bareKeys \/ text.trailingCommas) /\ JsonParses(Repair(text))

\* The records a text denotes.
ParsedRecords(text) ==
  IF text.value.j = "object" THEN text.value.enrichedFields ELSE text.value

\* C21: when the service sent near-JSON (bare keys, trailing commas) that the
\* repair mends, the enrichment step yields the records of the repaired text;
\* when the step failed on a text, the repaired text does not parse either.
C21_MendableOutputIsRepaired ==
  \A r \in Runs : \A i \in DOMAIN served[r] :
    LET text == OutputOf(served[r][i].resp)
    IN /\ Mendable(text) =>
            /\ i \in DOMAIN collectionSchemas[r]
            /\ collectionSchemas[r][i].fields = ParsedRecords(text)
       /\ (i \notin DOMAIN collectionSchemas[r] /\ text # Absent) => ~JsonParses(Repair(text))

\* C22: the inferencer maps a null value and an undefined value to
\* {type: null}: the type recorded for a path that holds either is null.
C22_NullAndUndefinedInferNull ==
  \A r \in Runs : docIdx[r] > 1 =>
    \A v \in {Null, Undefined}, n \in 1..MaxDepth :
      documents[r] = <<ProbeDoc(v, n)>> =>
        /\ getFieldType(v) = [type |-> "null"]
        /\ acc[r].fieldTypes[ProbePath(n)] = [type |-> "null"]

\* The key chains of a value, read off the value: an object contributes each
\* of its keys and, behind it, the chains of the value it holds; an array
\* contributes the chains of all its elements and no key of its own.
RECURSIVE KeyChains(_)
KeyChains(v) ==
  IF IsArray(v) THEN UNION {KeyChains(v.elems[i]) : i \in DOMAIN v.elems}
  ELSE IF v.k = "object"
    THEN UNION {{v.entries[i][1]} \cup {v.entries[i][1] \o c : c \in KeyChains(v.entries[i][2])} :
                  i \in DOMAIN v.entries}
  ELSE {}

\* The paths the walker recorded at or below a path.
RecordedUnder(r, path) == {key \in DOMAIN acc[r].fields : IsPrefix(path, key)}

\* C23: for a non-empty array held at a path, the paths recorded at or below
\* it are the array's own path and that path followed by the key chains of
\* all its elements, arrays inside arrays included; no path names an index.
C23_ElementsShareTheArrayPath ==
  \A r \in Runs : docIdx[r] > 1 =>
    \A v \in InferValues, n \in 1..MaxDepth :
      (documents[r] = <<ProbeDoc(v, n)>> /\ IsArray(v) /\ Len(v.elems) > 0) =>
        RecordedUnder(r, ProbePath(n))
          = {ProbePath(n)} \cup {ProbePath(n) \o c : c \in KeyChains(v)}

\* An array of an object and of an array that holds an object and a further
\* array of objects was walked at depth MaxDepth: the keys of all three
\* objects stand directly below the array's path.
C23_Witness ==
  \E r \in Runs :
    /\ docIdx[r] > 1
    /\ \E v \in InferValues :
         /\ IsArray(v)
         /\ documents[r] = <<ProbeDoc(v, MaxDepth)>>
         /\ \E i, j \in DOMAIN v.elems : IsArray(v.elems[i]) /\ v.elems[j].k = "object"
    /\ RecordedUnder(r, ProbePath(MaxDepth))
         = {ProbePath(MaxDepth) \o c : c \in {<<>>, Key("b"), Key("c"), Key("d")}}

\* What is said of an array that is no enum: items unknown when it is
\* empty, and else the inferred type of element 0.
ArrayTypeByFirstElement(v) ==
  [type |-> "array",
   items |-> IF Len(v.elems) = 0 THEN [type |-> "unknown"] ELSE getFieldType(v.elems[1])]

\* C24: for an array that does not qualify as enum the inferencer returns
\* {type: array, items: unknown} when it is empty and {type: array, items: T}
\* otherwise, T being the inferred type of element 0 whatever the other
\* elements are; that is the type the walker records for the path, and the
\* one it keeps when nothing else was recorded there.
C24_ItemsFromFirstElementOnly ==
  \A r \in Runs : docIdx[r] > 1 =>
    \A v \in InferValues, n \in 1..MaxDepth :
      (documents[r] = <<ProbeDoc(v, n)>> /\ IsArray(v) /\ ~ArrayQualifiesAsEnum(v.elems)) =>
        /\ getFieldType(v) = ArrayTypeByFirstElement(v)
        /\ "array" \in acc[r].fields[ProbePath(n)]
        /\ acc[r].fields[ProbePath(n)] = {"array"} =>
             acc[r].fieldTypes[ProbePath(n)] = ArrayTypeByFirstElement(v)

\* The array [number, string] was walked and is recorded as an array of
\* numbers, although its second element is a string.
C24_Witness ==
  \E r \in Runs :
    /\ docIdx[r] > 1
    /\ documents[r] = <<ProbeDoc(Arr(<<Num, Str("x")>>), 1)>>
    /\ acc[r].fieldTypes[ProbePath(1)] = [type |-> "array", items |-> [type |-> "number"]]

\* The calls a run makes on its client and for its collections.
RunOps == {"connect", "options", "find", "countDocuments", "enrich"}

\* How often a run has called close() on its client.
Closes(r) == Cardinality({i \in DOMAIN calls[r] : calls[r][i][1] = "close"})

\* C25: a run of analyzeDatabase that has constructed its client and has
\* settled (by returning, or by rejecting after a failure of connect, of the
\* analysis or of the enrichment) has called close() exactly once, a run
\* that has not settled has not called it, and no connect, options, find,
\* count or enrichment call of the run comes after its close().
C25_ClosesOnceAndLast ==
  \A r \in Runs :
    /\ Closes(r) = IF Settled(r) /\ client[r] # "none" THEN 1 ELSE 0
    /\ \A i, j \in DOMAIN calls[r] :
         (i < j /\ calls[r][i][1] = "close") => calls[r][j][1] \notin RunOps

\* The enrichment of the second collection failed after the first one was
\* read and enriched; the run rejected with that failure, its client is
\* closed, and close() is the last call it made.
C25_Witness ==
  \E r \in Runs :
    /\ result[r].kind = "throw"
    /\ result[r].error.stage = "enrich"
    /\ Len(collectionSchemas[r]) = 1
    /\ \E i \in DOMAIN calls[r] : calls[r][i][1] = "find"
    /\ client[r] = "closed"
    /\ Closes(r) = 1
    /\ pc[r] = "settled"
    /\ calls[r][Len(calls[r])][1] = "close"

\* The response is an error and carries no schema.
ErrorResponse(resp) == resp.status \in {400, 500} /\ "schema" \notin DOMAIN resp

\* C26: the artifact differs from the previously persisted one only after
\* analyzeDatabase has returned; a write that succeeded left the whole text
\* of the returned schema; and a request that had no uri, or whose analysis
\* rejected (at any collection, in the analysis or in the enrichment), ends
\* with the previous artifact untouched and an error response without a
\* schema.
C26_ArtifactOnlyAfterSuccessAndWhole ==
  \A r \in Runs :
    /\ (pc[r] # "idle" /\ artifact # PreviousArtifact) => result[r].kind = "return"
    /\ lastWriter = r => artifact = FileOf(Stringify(result[r].value))
    /\ (~request[r].hasUri \/ result[r].kind = "throw") =>
         /\ artifact = PreviousArtifact
         /\ pc[r] = "done" => ErrorResponse(response[r])

\* The enrichment of the second collection failed: the request was answered
\* with status 500 and the previous artifact is still in place.
C26_Witness ==
  \E r \in Runs :
    /\ pc[r] = "done"
    /\ result[r].kind = "throw"
    /\ result[r].error.stage = "enrich"
    /\ Len(collectionSchemas[r]) = 1
    /\ response[r].status = 500
    /\ artifact = PreviousArtifact

(***************************************************************************)
(* The query path                                                          *)
(***************************************************************************)
\* A driver call on the collection was issued for the request.
Executed == \E i \in DOMAIN qcalls : qcalls[i][2] # ""

\* C27: a query request carrying proceed = false is answered with 'Query
\* cancelled as per user request' and the generated query was not executed
\* against the database; and when the answer asks for clarification, no
\* query was executed before it.
C27_CancelledRequestNeverExecutes ==
  /\ (qpc = "done" /\ qrequest.hasQuery /\ qrequest.proceed = "false") =>
       qresponse = Cancelled /\ ~Executed
  /\ qresponse = AskClarification => ~Executed

\* How often the query request has called close() on its client.
QueryCloses == Cardinality({i \in DOMAIN qcalls : qcalls[i][1] = "close"})

QuerySettled == qresult # NoOutcome

\* The driver calls on the collection are calls of aggregate, find or
\* findOne; any other operation that reached executeMongoQuery ended in
\* 'Unsupported query operation' with no call on the collection; and the
\* client, once constructed, is closed exactly once by the time the call
\* has settled, after every other call.
OnlyReadMethodsAreCalled ==
  /\ \A i \in DOMAIN qcalls : qcalls[i][2] # "" => qcalls[i][1] \in {"aggregate", "find", "findOne"}
  /\ (qpc \in {"qclosing", "settled"} /\ parsed.operation \notin {"aggregate", "find", "findOne"}) =>
       /\ ~Executed
       /\ (qpc = "qclosing" /\ qclient = "connected") =>
            qpending = Throw("Unsupported query operation")
  /\ QueryCloses = IF QuerySettled /\ qclient # "none" THEN 1 ELSE 0
  /\ \A i \in DOMAIN qcalls : qcalls[i][1] = "close" => i = Len(qcalls)

\* A call that writes was issued: an aggregate whose pipeline holds a $out
\* or $merge stage, or a call of another method than the three that read.
WriteIssued ==
  \E i \in DOMAIN qcalls :
    /\ qcalls[i][2] # ""
    /\ \/ qcalls[i][1] \notin {"aggregate", "find", "findOne"}
       \/ qcalls[i][1] = "aggregate" /\ parsed.params = Pipeline(TRUE)

\* C28: only read operations are issued against the database for a
\* generated query: the driver is called for aggregate, find or findOne
\* only, anything else raises 'Unsupported query operation' without a call
\* on the collection, the client is closed on every path, and no call that
\* was issued writes.
C28_OnlyReadsAreIssued == OnlyReadMethodsAreCalled /\ ~WriteIssued

\* generateMongoQuery has settled for a request to executeQuery.
GenerationSettled == qrequest.entry = "controller" /\ qpc \in {"respond", "done"} /\ qrequest.hasQuery

\* Every step of the try block went through: the driver call returned and
\* the client was closed.
AllStepsSucceeded == qpending.kind = "return" /\ qclient = "closed"

\* C29: generateMongoQuery never rejects; whenever a step of its try block
\* failed (reading the context or the schema, generating, parsing or
\* executing the query) it resolves with an empty mongoQuery, no results,
\* needsClarification = false and an explanation that starts with 'Query
\* execution failed: '.
C29_FailuresResolveAsFailureResult ==
  GenerationSettled =>
    /\ qresult.kind = "return"
    /\ ~AllStepsSucceeded =>
         /\ qresult.value.mongoQuery = EmptyQuery
         /\ qresult.value.results = <<>>
         /\ qresult.value.needsClarification = FALSE
         /\ qresult.value.explanation.prefix = FailedPrefix

\* The generated text was no query the parser accepts: the promise resolved
\* with the failure result, which the handler sent with status 200.
C29_Witness ==
  /\ qpc = "done"
  /\ generated.mongoQuery = NotAQuery
  /\ qresult = Return(Failure("Invalid query format"))
  /\ qresponse = [status |-> 200, result |-> Failure("Invalid query format")]

(***************************************************************************)
(* The chunker                                                             *)
(***************************************************************************)
\* The loop over the fields has ended.
ChunkingDone == chunker.fields > 0 /\ chunkI >= chunker.fields

\* The chunks flagged as the last one.
LastChunks == {k \in DOMAIN chunks : chunks[k].isLastChunk}

\* C30: when chunkSchema has chunked a collection of at least one field
\* with maxFieldsPerChunk > overlapFields, exactly one of the emitted
\* collection_fields chunks has isLastChunk = true, it is the one with
\* chunkIndex = totalChunks - 1, and totalChunks is the number of chunks
\* emitted.
C30_ExactlyOneLastChunk ==
  ChunkingDone =>
    /\ \A k \in DOMAIN chunks : chunks[k].totalChunks = Len(chunks)
    /\ Cardinality(LastChunks) = 1
    /\ \A k \in LastChunks : chunks[k].chunkIndex = chunks[k].totalChunks - 1
====
